---- MODULE Spec2Model ----
(***************************************************************************)
(* The streaming orchestrator of the paper question-answering backend:     *)
(* stream_dspy_response (backend/app/utils/streaming.py), the planner      *)
(* (backend/app/services/planner.py) and the callbacks chat_basic hands    *)
(* to it (backend/app/api/routes/chat.py).                                 *)
(*                                                                         *)
(* One session is one run of the async generator.  `pc` is the generator's *)
(* position, `events` the SSE items it has yielded so far, in order.  The  *)
(* language-model calls, the retriever and the callbacks are collaborators *)
(* whose outcome (a value or an exception) is chosen nondeterministically. *)
(***************************************************************************)
EXTENDS Integers, Sequences, FiniteSets, TLC

(***************************************************************************)
(* Bounds of the model.                                                    *)
(***************************************************************************)
\* Most chunks the streaming sub-calls of one session yield in total (step
\* thinking, answer tokens and refinement tokens together).
MaxChunks == 1
\* Longest plan the planner model is taken to return with free search flags.
MaxPlanLen == 1
\* Longest raw source list of a prediction.
MaxSources == 3
\* Longest answer text, in characters.
MaxAnswerLen == 5
\* Most words of a question whose words are chosen freely.
MaxWords == 2
\* Most calls of the session manager (get_history and add_message together)
\* in one run of concurrent calls, and in one run of calls made one after
\* the other; the retention cap max_messages_per_session the manager is
\* constructed with (50 unless MAX_MESSAGES_PER_SESSION says otherwise).
MaxCalls == 2
MaxTurns == 4
MaxRetention == 2
\* Most turns get_history hands to chat_basic.
MaxHistoryLen == 7

(***************************************************************************)
(* Values.                                                                 *)
(***************************************************************************)
None == "None"

\* The keyword arguments of stream_dspy_response that may be absent.
Params ==
  { "intent_classifier", "query_generator", "acknowledgment_generator",
    "planner", "on_complete", "generate_title", "query_reformulator",
    "gap_detector", "include_metadata" }

\* The call of chat_basic: every collaborator and callback is passed,
\* include_metadata is left at its default.
ChatBasicCall == [p \in Params |-> p # "include_metadata"]
\* The sessions of the model: that call, and each call that differs from it
\* in one argument.
Configs ==
  { ChatBasicCall } \cup { [ChatBasicCall EXCEPT ![p] = ~@] : p \in Params }

\* An SSE item: its "type", the step it belongs to (-1 when it has none) and
\* its content (None when the payload carries nothing the model tracks).
Ev(t) == [type |-> t, step_id |-> -1, content |-> None]
StepEv(t, id) == [type |-> t, step_id |-> id, content |-> None]
MsgEv(t, c) == [type |-> t, step_id |-> -1, content |-> c]
ActEv(id, action) == [type |-> "step_action", step_id |-> id, content |-> action]

\* The stream terminator "data: [DONE]\n\n".
DONE == Ev("[DONE]")

\* The chunks streamed so far, and how many more the session may stream.
ChunkTypes == { "step_thinking", "token", "refinement_token" }
Chunks(es) == Len(SelectSeq(es, LAMBDA e : e.type \in ChunkTypes))
ChunksLeft(es) == MaxChunks - Chunks(es)

\* k copies of one event (a streamed sub-call that yields k chunks).
Repeat(e, k) == [i \in 1..k |-> e]


(***************************************************************************)
(* The skip-planner heuristic.  A question is the list of its words        *)
(* (question.split()); a word is the sequence of its characters.           *)
(***************************************************************************)
Uppers == << "A","B","C","D","E","F","G","H","I","J","K","L","M",
             "N","O","P","Q","R","S","T","U","V","W","X","Y","Z" >>
Lowers == << "a","b","c","d","e","f","g","h","i","j","k","l","m",
             "n","o","p","q","r","s","t","u","v","w","x","y","z" >>

\* str.lower(), character by character.
LowerChar(c) ==
  IF \E i \in 1..Len(Uppers) : Uppers[i] = c
  THEN Lowers[CHOOSE i \in 1..Len(Uppers) : Uppers[i] = c]
  ELSE c
Lower(w) == [i \in 1..Len(w) |-> LowerChar(w[i])]

\* Mutant of Strip: only the trailing characters are dropped.
StripTrailing(w) ==
  LET keep == { i \in 1..Len(w) : w[i] \notin { "?", ",", ".", ":" } }
  IN  IF keep = {} THEN << >>
      ELSE SubSeq(w, 1, CHOOSE i \in keep : \A j \in keep : i >= j)

\* str.strip("?,.:"): drops the leading and trailing characters of the set.
StripChars == { "?", ",", ".", ":" }
Strip(w) ==
  LET keep == { i \in 1..Len(w) : w[i] \notin StripChars }
  IN  IF keep = {} THEN << >>
      ELSE LET lo == CHOOSE i \in keep : \A j \in keep : i <= j
               hi == CHOOSE i \in keep : \A j \in keep : i >= j
           IN  SubSeq(w, lo, hi)

complex_keywords ==
  { << "c","o","m","p","a","r","e" >>,
    << "c","o","m","p","a","r","i","s","o","n" >>,
    << "d","i","f","f","e","r","e","n","c","e" >>,
    << "d","i","f","f","e","r","e","n","c","e","s" >>,
    << "v","e","r","s","u","s" >>,
    << "v","s" >>,
    << "a","l","s","o" >>,
    << "a","d","d","i","t","i","o","n","a","l","l","y" >>,
    << "f","u","r","t","h","e","r","m","o","r","e" >>,
    << "c","o","n","t","r","a","s","t" >> }

\* Word count from which the planner is always consulted.
LongQuestionWords == 20

ShouldUseDefaultPlan(words) ==
  IF Len(words) >= LongQuestionWords THEN FALSE
  ELSE ~ \E i \in 1..Len(words) : Strip(Lower(words[i])) \in complex_keywords

\* The questions a session is run on: "Hi" and "A vs. B".
SimpleQuestion == << << "H","i" >> >>
ComparativeQuestion == << << "A" >>, << "V","s","." >>, << "B" >> >>
SessionQuestions == { SimpleQuestion, ComparativeQuestion }

(***************************************************************************)
(* The planner.  A PlanStep is its id and its needs_search flag; titles    *)
(* and descriptions are free text no decision of the orchestrator reads.   *)
(***************************************************************************)
PlanStep(id, needs_search) == [id |-> id, needs_search |-> needs_search]

\* Number of steps the planner prompt tells the model never to exceed.
DocumentedMaxSteps == 4

\* What the planner model may answer: any list of up to MaxPlanLen steps
\* (the empty list stands for `result.steps` being None or []), with ids
\* counted from 0 or from 1, one list longer than the prompt allows, and one
\* plan that searches in two steps.
RawStepIdOffsets == { 0, 1 }
RawPlan(flags, off) ==
  [i \in 1..Len(flags) |-> PlanStep(i - 1 + off, flags[i])]
SearchFlagLists ==
  UNION { [1..n -> BOOLEAN] : n \in 0..MaxPlanLen }
    \cup { [i \in 1..(DocumentedMaxSteps + 1) |-> FALSE] }
    \cup { << TRUE, TRUE >> }
PlannerOutputs ==
  { RawPlan(f, off) : f \in SearchFlagLists, off \in RawStepIdOffsets }

\* Mutant of CreatePlan: the ids of the model are kept.
CreatePlanKeepIds(raw) == raw

\* ResearchPlanner.create_plan applied to the model's answer `raw`.
CreatePlan(raw) == [i \in 1..Len(raw) |-> [raw[i] EXCEPT !.id = i - 1]]

DefaultPlan(research) ==
  IF ~research THEN << PlanStep(0, FALSE) >>
  ELSE << PlanStep(0, TRUE), PlanStep(1, FALSE) >>

(***************************************************************************)
(* Citations.  A paper is its id; a CitedPaper is the id and the           *)
(* citation_number it was given; an answer is the sequence of its          *)
(* characters.                                                             *)
(***************************************************************************)
CitedPaper(id, n) == [id |-> id, citation_number |-> n]

\* Mutant of BuildCitedPapers: the check against `seen` is missing.
BuildCitedPapersNoSeen(source_ids, retrieved_papers) ==
  LET numbered == [i \in 1..Len(source_ids) |-> CitedPaper(source_ids[i], i)]
      known(c) == \E k \in 1..Len(retrieved_papers) : retrieved_papers[k] = c.id
  IN  SelectSeq(numbered, known)

\* Mutant of BuildCitedPapers: a paper is numbered by its rank in the list
\* that is returned.
BuildCitedPapersRanked(source_ids, retrieved_papers) ==
  LET numbered == [i \in 1..Len(source_ids) |-> CitedPaper(source_ids[i], i)]
      first(c) == \A j \in 1..(c.citation_number - 1) : source_ids[j] # c.id
      known(c) == \E k \in 1..Len(retrieved_papers) : retrieved_papers[k] = c.id
      kept == SelectSeq(numbered, LAMBDA c : first(c) /\ known(c))
  IN  [k \in 1..Len(kept) |-> CitedPaper(kept[k].id, k)]

\* _build_cited_papers: source id number i (counted from 1) yields a
\* CitedPaper numbered i, unless the id was seen before or is not the id of
\* a retrieved paper.
BuildCitedPapers(source_ids, retrieved_papers) ==
  LET numbered == [i \in 1..Len(source_ids) |-> CitedPaper(source_ids[i], i)]
      first(c) == \A j \in 1..(c.citation_number - 1) : source_ids[j] # c.id
      known(c) == \E k \in 1..Len(retrieved_papers) : retrieved_papers[k] = c.id
  IN  SelectSeq(numbered, LAMBDA c : first(c) /\ known(c))

\* The decimal digits, the digit d at position d + 1.
Digits == << "0", "1", "2", "3", "4", "5", "6", "7", "8", "9" >>
IsDigit(c) == \E d \in 1..Len(Digits) : Digits[d] = c
DigitValue(c) == (CHOOSE d \in 1..Len(Digits) : Digits[d] = c) - 1

RECURSIVE IntOf(_)
\* int() of a string of digits.
IntOf(ds) ==
  IF ds = << >> THEN 0
  ELSE 10 * IntOf(SubSeq(ds, 1, Len(ds) - 1)) + DigitValue(ds[Len(ds)])

\* re.findall(r'\[(\d+)\]', answer): the digit strings that stand between an
\* opening and a closing bracket with nothing else in between.
FindAllCitations(answer) ==
  { SubSeq(answer, i + 1, j - 1) :
      << i, j >> \in { m \in (1..Len(answer)) \X (1..Len(answer)) :
                         /\ m[1] + 1 < m[2]
                         /\ answer[m[1]] = "["
                         /\ answer[m[2]] = "]"
                         /\ \A k \in (m[1] + 1)..(m[2] - 1) :
                              IsDigit(answer[k]) } }

RECURSIVE Sorted(_)
\* sorted() of a set of integers.
Sorted(S) ==
  IF S = {} THEN << >>
  ELSE LET lo == CHOOSE x \in S : \A y \in S : x <= y
       IN  << lo >> \o Sorted(S \ { lo })

\* Mutant of AuditCitations: every number up to the length of the list
\* counts as valid.
AuditCitationsByLength(answer, cited_papers) ==
  LET cited_nums == { IntOf(n) : n \in FindAllCitations(answer) }
      valid_nums == 1..Len(cited_papers)
      hallucinated == Sorted(cited_nums \ valid_nums)
  IN  [is_clean |-> Len(hallucinated) = 0,
       hallucinated_citation_numbers |-> hallucinated,
       total_citations_in_answer |-> Cardinality(cited_nums),
       total_papers_available |-> Len(cited_papers)]

\* _audit_citations.
AuditCitations(answer, cited_papers) ==
  LET cited_nums == { IntOf(n) : n \in FindAllCitations(answer) }
      valid_nums == { cited_papers[k].citation_number :
                        k \in 1..Len(cited_papers) }
      hallucinated == Sorted(cited_nums \ valid_nums)
  IN  [is_clean |-> Len(hallucinated) = 0,
       hallucinated_citation_numbers |-> hallucinated,
       total_citations_in_answer |-> Cardinality(cited_nums),
       total_papers_available |-> Len(cited_papers)]

(***************************************************************************)
(* Collaborator values.                                                    *)
(***************************************************************************)
\* search_query strings the query generator may produce.
Queries == { "kw" }
\* broader_query strings the reformulator may produce, already stripped:
\* a new query, the same query again, or nothing.
BroaderQueries == { "broad", "kw", "" }
\* Paper-id lists one retrieval may return.
RetrievalResults == { << >>, << "p1" >> }
\* What the intent classifier may answer.
Categories == { "research", "general" }

\* _load_history before the session: turns were loaded, there were none, or
\* the load failed, which it reports as no history.  chat_basic passes
\* generate_title on a first message only, that is when nothing was loaded.
HistoryLoads(call) ==
  IF call = ChatBasicCall THEN { "none", "load_failed" }
  ELSE IF call.generate_title THEN { "none" }
  ELSE { "loaded" }

VARIABLES
  pc,                   \* position of the generator
  events,               \* SSE items yielded so far
  cfg,                  \* which optional arguments the caller supplied
  question,             \* the question, as its list of words
  history,              \* what _load_history came to before the session
  intent_task,          \* asyncio task of the intent classifier
  query_task,           \* asyncio task of the speculative query generation
  is_research,
  pre_generated_query,
  steps,                \* the plan
  step_idx,             \* 1-based position of the for loop over steps
  all_papers,           \* ids of the papers retrieved so far, in order
  unique_papers,        \* all_papers de-duplicated before the answer
  token_count,          \* answer tokens streamed
  exc,                  \* the exception in flight to the outer handler
  persisted,            \* the on_complete call: status and what it was given
  title_call,           \* the generate_title call
  refinement_papers,    \* candidate set of the refinement round
  calls,                \* how often each collaborator was invoked
  gap_result,           \* what the gap detector answered
  refinement,           \* how far the refinement round has come
  helper,               \* a call of one of the module's pure helpers
  redis_client,         \* SessionManager._redis: None or the cache client
  cache,                \* the cache tier: the turn list under each session key
  database,             \* the durable store: conversation rows and messages
  tasks,                \* the calls of get_history and add_message
  made,                 \* how many calls, and add_message calls, were made
  added,                \* the turns of the add_message calls that returned
  observed,             \* what get_history last returned per conversation
  requests,             \* the chat_basic requests
  titles                \* generate_title calls made per conversation id

\* The variables of the session manager's world and of the chat_basic
\* requests; the session specifications leave both alone.
storeVars ==
  << redis_client, cache, database, tasks, made, added, observed >>
chatVars == << requests, titles >>

vars ==
  << pc, events, cfg, question, history, intent_task, query_task, is_research,
     pre_generated_query, steps, step_idx, all_papers, unique_papers,
     token_count, exc, persisted, title_call, refinement_papers, calls,
     gap_result, refinement, helper, storeVars, chatVars >>

NoTask == [status |-> None, result |-> None, thread_done |-> FALSE]
NoCalls ==
  [retriever |-> 0, planner |-> 0, thinker |-> 0, query_generator |-> 0,
   reformulator |-> 0, gap_detector |-> 0, program |-> 0]

\* No gap verdict yet, and no helper call: the session specifications leave
\* `helper` alone, the helper specification leaves the session alone.
NoGapResult == [verdict |-> None, gap_query |-> << >>]
NoRefinement == [phase |-> None, gap_q |-> << >>]
NoHelper == [fn |-> None]

(***************************************************************************)
(* The session manager's world (backend/app/services/session_manager.py):  *)
(* the manager's cache handle, the cache tier, the durable store, and the  *)
(* calls of get_history and add_message, each suspended at one of its      *)
(* awaits.                                                                 *)
(***************************************************************************)
ConversationIds == { "c1", "c2" }
\* The coroutines that call the manager: two calls can be in progress at
\* once, a coroutine that has its result goes on to its next call.
TaskIds == { "a", "b" }
\* The limit argument of get_history.  0 stands for the absent limit as
\* well: the code only tests `limit` for truth, so None and 0 act alike.
\* A caller may ask for more turns than the cache is meant to keep.
Limits == 0..3

\* The dict add_message builds (keys question, answer, sources, context,
\* timestamp and the caller's metadata), and the dict load_from_database
\* builds from a row (question, answer, sources, search_query, timestamp).
\* `turn` stands for the question and answer of the n-th add_message call.
Message(n) == [turn |-> n, shape |-> "message"]
Row(n) == [turn |-> n, shape |-> "row"]

\* A call that has not been made yet.
IdleCall ==
  [op |-> None, cid |-> None, pc |-> "idle", turn |-> 0, limit |-> 0,
   messages |-> << >>, result |-> << >>, raised |-> FALSE,
   handle_at_connect |-> None, connect_attempted |-> FALSE,
   cache_failure |-> None, handle_after_failure |-> None,
   save_called |-> FALSE, db_attempted |-> FALSE, db_failed |-> FALSE,
   overlapped |-> FALSE, ok |-> FALSE]

NoObservation ==
  [state |-> "void", last |-> << >>, prev |-> << >>, limit |-> 0]

\* The world before the first call: SessionManager.__init__ leaves _redis
\* None, both tiers are empty.  An absent session key is the empty list:
\* the writers of the key modelled here never store an empty one.
StoreIdle ==
  /\ redis_client = None
  /\ cache = [c \in ConversationIds |-> << >>]
  /\ database = [configured |-> TRUE, conversations |-> {},
                 messages |-> [c \in ConversationIds |-> << >>]]
  /\ tasks = [t \in TaskIds |-> IdleCall]
  /\ made = [calls |-> 0, adds |-> 0]
  /\ added = [c \in ConversationIds |->
              [turns |-> << >>, plain |-> TRUE, untroubled |-> TRUE,
               stored |-> TRUE]]
  /\ observed = [c \in ConversationIds |-> NoObservation]

(***************************************************************************)
(* The requests of chat_basic (backend/app/api/routes/chat.py).            *)
(***************************************************************************)
RequestIds == { "r1", "r2" }
\* request.get_conversation_id(): an id, or None.
RequestConversationIds == ConversationIds \cup { None }

\* A request that has not arrived yet.
IdleRequest ==
  [pc |-> "idle", conversation_id |-> None, is_incognito |-> FALSE,
   stream |-> FALSE, raw_history |-> None, is_first_message |-> FALSE,
   title_generator |-> FALSE, manager_calls |-> 0, title_saved |-> FALSE]

ChatIdle ==
  /\ requests = [r \in RequestIds |-> IdleRequest]
  /\ titles = [c \in RequestConversationIds |-> 0]

Init ==
  /\ StoreIdle
  /\ ChatIdle
  /\ pc = "start"
  /\ events = << >>
  /\ cfg \in Configs
  /\ question \in SessionQuestions
  /\ history \in HistoryLoads(cfg)
  /\ intent_task = NoTask
  /\ query_task = NoTask
  /\ is_research = TRUE
  /\ pre_generated_query = None
  /\ steps = << >>
  /\ step_idx = 0
  /\ all_papers = << >>
  /\ unique_papers = << >>
  /\ token_count = 0
  /\ exc = None
  /\ persisted = [status |-> None, answer |-> None, search_query |-> None]
  /\ title_call = None
  /\ refinement_papers = << >>
  /\ calls = NoCalls
  /\ gap_result = NoGapResult
  /\ refinement = NoRefinement
  /\ helper = NoHelper

Emit(es) == events' = events \o es
Called(who) == calls' = [calls EXCEPT ![who] = @ + 1]

\* An exception leaves the try body for the handler of line 618.
Raise(msg) ==
  /\ pc' = "except"
  /\ exc' = msg


(***************************************************************************)
(* 1-2. Thinking state, then intent classification and query               *)
(* pre-generation as two asyncio tasks running on worker threads.          *)
(***************************************************************************)
Running == [NoTask EXCEPT !.status = "running"]

Begin ==
  /\ pc = "start"
  /\ Emit(<< Ev("simple_thinking"), MsgEv("status", "classifying") >>)
  /\ intent_task' = IF cfg.intent_classifier THEN Running ELSE NoTask
  /\ query_task' = IF cfg.query_generator THEN Running ELSE NoTask
  /\ calls' = [calls EXCEPT !.query_generator =
                 IF cfg.query_generator THEN @ + 1 ELSE @]
  /\ pc' = IF cfg.intent_classifier THEN "await_intent" ELSE "classified"
  /\ UNCHANGED << cfg, question, history, storeVars, chatVars,
                  helper, gap_result,
                  refinement, is_research, pre_generated_query, steps,
                  step_idx, all_papers, unique_papers, token_count, exc,
                  persisted, title_call,
                  refinement_papers >>

\* The classifier's worker thread returns a category or raises.
IntentThreadFinish ==
  /\ intent_task.status = "running"
  /\ \/ \E c \in Categories :
          intent_task' = [status |-> "done", result |-> c, thread_done |-> TRUE]
     \/ intent_task' = [status |-> "failed", result |-> None, thread_done |-> TRUE]
  /\ UNCHANGED << pc, events, cfg, question, history, storeVars, chatVars,
                  helper, gap_result,
                  refinement, query_task, is_research,
                  pre_generated_query, steps, step_idx, all_papers,
                  unique_papers, token_count, exc, persisted, title_call,
                  refinement_papers, calls >>

\* The query generator's worker thread returns or raises.  A thread cannot be
\* interrupted: after Task.cancel() it still runs to its end, and its result
\* is dropped because the task is already cancelled.
QueryThreadFinish ==
  /\ query_task.status \in { "running", "cancelled" }
  /\ ~query_task.thread_done
  /\ \/ \E q \in Queries :
          query_task' =
            IF query_task.status = "cancelled"
            THEN [query_task EXCEPT !.thread_done = TRUE]
            ELSE [status |-> "done", result |-> q, thread_done |-> TRUE]
     \/ query_task' =
            IF query_task.status = "cancelled"
            THEN [query_task EXCEPT !.thread_done = TRUE]
            ELSE [status |-> "failed", result |-> None, thread_done |-> TRUE]
  /\ UNCHANGED << pc, events, cfg, question, history, storeVars, chatVars,
                  helper, gap_result,
                  refinement, intent_task, is_research,
                  pre_generated_query, steps, step_idx, all_papers,
                  unique_papers, token_count, exc, persisted, title_call,
                  refinement_papers, calls >>

\* `intent_res = await intent_task`: resumes when the task is done; an
\* exception of the task is re-raised here, inside the outer try.
\* Mutants of AwaitIntent: one that never resumes on a failed task, one that
\* swallows the failure and keeps the research default.
AwaitIntentHang ==
  /\ pc = "await_intent"
  /\ intent_task.status = "done"
  /\ is_research' = (intent_task.result # "general")
  /\ pc' = "classified"
  /\ UNCHANGED << events, cfg, question, history, storeVars, chatVars,
                  helper, gap_result,
                  refinement, intent_task, query_task,
                  pre_generated_query, steps, step_idx, all_papers,
                  unique_papers, token_count, exc, persisted, title_call,
                  refinement_papers, calls >>

AwaitIntentFailOpen ==
  /\ pc = "await_intent"
  /\ intent_task.status \in { "done", "failed" }
  /\ is_research' = (intent_task.result # "general")
  /\ pc' = "classified"
  /\ UNCHANGED << events, cfg, question, history, storeVars, chatVars,
                  helper, gap_result,
                  refinement, intent_task, query_task,
                  pre_generated_query, steps, step_idx, all_papers,
                  unique_papers, token_count, exc, persisted, title_call,
                  refinement_papers, calls >>

\* `intent_res = await intent_task`: resumes when the task is done; an
\* exception of the task is re-raised here, inside the outer try.
AwaitIntent ==
  /\ pc = "await_intent"
  /\ intent_task.status \in { "done", "failed" }
  /\ IF intent_task.status = "failed"
     THEN /\ Raise("intent_classifier")
          /\ UNCHANGED is_research
     ELSE /\ is_research' = (intent_task.result # "general")
          /\ pc' = "classified"
          /\ UNCHANGED exc
  /\ UNCHANGED << events, cfg, question, history, storeVars, chatVars,
                  helper, gap_result,
                  refinement, intent_task, query_task,
                  pre_generated_query, steps, step_idx, all_papers,
                  unique_papers, token_count, persisted, title_call,
                  refinement_papers, calls >>

EmitClassified ==
  /\ pc = "classified"
  /\ Emit(<< MsgEv("status", IF is_research THEN "classified:research"
                                            ELSE "classified:general") >>)
  /\ pc' = IF is_research /\ cfg.acknowledgment_generator
           THEN "acknowledge" ELSE "branch"
  /\ UNCHANGED << cfg, question, history, storeVars, chatVars,
                  helper, gap_result,
                  refinement, intent_task, query_task, is_research,
                  pre_generated_query, steps, step_idx, all_papers,
                  unique_papers, token_count, exc, persisted, title_call,
                  refinement_papers, calls >>

\* 2b. The acknowledgment call: a text, an empty result, or an exception that
\* is caught on the spot.
Acknowledge ==
  /\ pc = "acknowledge"
  /\ \/ Emit(<< Ev("acknowledgment") >>)
     \/ UNCHANGED events
  /\ pc' = "branch"
  /\ UNCHANGED << cfg, question, history, storeVars, chatVars,
                  helper, gap_result,
                  refinement, intent_task, query_task, is_research,
                  pre_generated_query, steps, step_idx, all_papers,
                  unique_papers, token_count, exc, persisted, title_call,
                  refinement_papers, calls >>

(***************************************************************************)
(* General questions: no plan, straight to the answer.                     *)
(***************************************************************************)
\* Mutant of Cancel: the cancel call is missing.
CancelForgotten(task) == task

\* Task.cancel(): cancels a task that is still running, does nothing to one
\* that is done.
Cancel(task) ==
  IF task.status = "running" THEN [task EXCEPT !.status = "cancelled"]
  ELSE task

GeneralStart ==
  /\ pc = "branch"
  /\ ~is_research
  /\ query_task' = Cancel(query_task)
  /\ Emit(<< Ev("answer_start") >>)
  /\ Called("program")
  /\ pc' = "general_stream"
  /\ UNCHANGED << cfg, question, history, storeVars, chatVars,
                  helper, gap_result,
                  refinement, intent_task, is_research,
                  pre_generated_query, steps, step_idx, all_papers,
                  unique_papers, token_count, exc, persisted, title_call,
                  refinement_papers >>

GeneralToken ==
  /\ pc = "general_stream"
  /\ ChunksLeft(events) > 0
  /\ token_count' = token_count + 1
  /\ Emit(<< Ev("token") >>)
  /\ UNCHANGED << pc, cfg, question, history, storeVars, chatVars,
                  helper, gap_result,
                  refinement, intent_task, query_task, is_research,
                  pre_generated_query, steps, step_idx, all_papers,
                  unique_papers, exc, persisted, title_call,
                  refinement_papers, calls >>

GeneralStreamRaise ==
  /\ pc = "general_stream"
  /\ Raise("answer")
  /\ UNCHANGED << events, cfg, question, history, storeVars, chatVars,
                  helper, gap_result,
                  refinement, intent_task, query_task, is_research,
                  pre_generated_query, steps, step_idx, all_papers,
                  unique_papers, token_count, persisted, title_call,
                  refinement_papers, calls >>

\* What the generator does with the on_complete callback once `done` is out.
\* `await on_complete(...)` starts the call and suspends the generator until
\* it returns.
InvokeOnComplete(answer, search_query) ==
  IF cfg.on_complete
  THEN [status |-> "pending", answer |-> answer,
        search_query |-> search_query]
  ELSE persisted

\* Mutant of OnCompleteAwaited: the callback is started as a detached task.
DetachedOnComplete(p) == TRUE

\* The generator may go on past `await on_complete(...)`.
OnCompleteAwaited(p) == p.status # "pending"

GeneralPrediction ==
  /\ pc = "general_stream"
  /\ LET general_answer == "answer" IN
       /\ Emit(<< MsgEv("done", general_answer) >>)
       /\ persisted' = InvokeOnComplete(general_answer, None)
  /\ pc' = "title"
  /\ UNCHANGED << cfg, question, history, storeVars, chatVars,
                  helper, gap_result,
                  refinement, intent_task, query_task, is_research,
                  pre_generated_query, steps, step_idx, all_papers,
                  unique_papers, token_count, exc, title_call,
                  refinement_papers, calls >>


\* The callback chat_basic passes: _save_history stores the turn, or catches
\* and logs the failure; either way the call returns.
OnCompleteReturn ==
  /\ persisted.status = "pending"
  /\ \E r \in { "saved", "save_failed" } :
       persisted' = [persisted EXCEPT !.status = r]
  /\ UNCHANGED << pc, events, cfg, question, history, storeVars, chatVars,
                  helper, gap_result,
                  refinement, intent_task, query_task,
                  is_research, pre_generated_query, steps, step_idx,
                  all_papers, unique_papers, token_count, exc, title_call,
                  refinement_papers, calls >>

(***************************************************************************)
(* 3. Research questions: collect the speculative query, then plan.        *)
(***************************************************************************)
\* Mutant of CollectQuery: the general branch falls through into planning.
CollectQueryAnyIntent ==
  /\ pc = "branch"
  /\ query_task.status \in { None, "done", "failed", "cancelled" }
  /\ IF query_task.status = "failed"
     THEN /\ Raise("query_generator")
          /\ UNCHANGED << events, pre_generated_query >>
     ELSE /\ pre_generated_query' =
               IF query_task.status = "done" THEN query_task.result ELSE None
          /\ Emit(<< MsgEv("status", "planning") >>)
          /\ pc' = "plan"
          /\ UNCHANGED exc
  /\ UNCHANGED << cfg, question, history, storeVars, chatVars,
                  helper, gap_result,
                  refinement, intent_task, query_task, is_research, steps,
                  step_idx, all_papers, unique_papers, token_count, persisted,
                  title_call, refinement_papers, calls >>

CollectQuery ==
  /\ pc = "branch"
  /\ is_research
  /\ query_task.status \in { None, "done", "failed", "cancelled" }
  /\ IF query_task.status = "failed"
     THEN /\ Raise("query_generator")
          /\ UNCHANGED << events, pre_generated_query >>
     ELSE /\ pre_generated_query' =
               IF query_task.status = "done" THEN query_task.result ELSE None
          /\ Emit(<< MsgEv("status", "planning") >>)
          /\ pc' = "plan"
          /\ UNCHANGED exc
  /\ UNCHANGED << cfg, question, history, storeVars, chatVars,
                  helper, gap_result,
                  refinement, intent_task, query_task, is_research, steps,
                  step_idx, all_papers, unique_papers, token_count, persisted,
                  title_call, refinement_papers, calls >>

\* Mutant of MakePlan: the planner is consulted whatever the heuristic says.
MakePlanAlwaysPlanner ==
  /\ pc = "plan"
  /\ IF cfg.planner
     THEN /\ Called("planner")
          /\ \/ /\ \E raw \in PlannerOutputs : steps' = CreatePlan(raw)
                /\ Emit(<< Ev("plan") >>)
                /\ pc' = "step_loop"
                /\ UNCHANGED exc
             \/ /\ Raise("planner")
                /\ UNCHANGED << steps, events >>
     ELSE /\ steps' = DefaultPlan(is_research)
          /\ Emit(<< Ev("plan") >>)
          /\ pc' = "step_loop"
          /\ UNCHANGED << exc, calls >>
  /\ step_idx' = 1
  /\ all_papers' = << >>
  /\ UNCHANGED << cfg, question, history, storeVars, chatVars,
                  helper, gap_result,
                  refinement, intent_task, query_task, is_research,
                  pre_generated_query, unique_papers, token_count, persisted,
                  title_call, refinement_papers >>

MakePlan ==
  /\ pc = "plan"
  /\ IF cfg.planner /\ ~ShouldUseDefaultPlan(question)
     THEN /\ Called("planner")
          /\ \/ /\ \E raw \in PlannerOutputs : steps' = CreatePlan(raw)
                /\ Emit(<< Ev("plan") >>)
                /\ pc' = "step_loop"
                /\ UNCHANGED exc
             \/ /\ Raise("planner")
                /\ UNCHANGED << steps, events >>
     ELSE /\ steps' = DefaultPlan(is_research)
          /\ Emit(<< Ev("plan") >>)
          /\ pc' = "step_loop"
          /\ UNCHANGED << exc, calls >>
  /\ step_idx' = 1
  /\ all_papers' = << >>
  /\ UNCHANGED << cfg, question, history, storeVars, chatVars,
                  helper, gap_result,
                  refinement, intent_task, query_task, is_research,
                  pre_generated_query, unique_papers, token_count, persisted,
                  title_call, refinement_papers >>


(***************************************************************************)
(* 4. The step loop.                                                       *)
(***************************************************************************)
\* What one call of _execute_search_step can come to: a return value
\* (search_query, papers, original_query_if_reformulated) or an exception,
\* with the number of collaborator calls it made and, in `trace`, the calls
\* themselves in the order they were awaited.
SearchReturn(q, papers, orig, g, r, f, trace) ==
  [raised |-> None, search_query |-> q, papers |-> papers,
   original_query |-> orig, n_query_generator |-> g, n_retriever |-> r,
   n_reformulator |-> f, trace |-> trace]
SearchRaise(msg, g, r, f, trace) ==
  [raised |-> msg, search_query |-> None, papers |-> << >>,
   original_query |-> None, n_query_generator |-> g, n_retriever |-> r,
   n_reformulator |-> f, trace |-> trace]

\* One awaited collaborator call of a search step: who was called, with
\* which query, and how the call ended ("raised", or for the retriever
\* "empty" / "papers", or for a language-model call "answered").
Awaited(callee, query, result) ==
  [callee |-> callee, query |-> query, result |-> result]
Retrieved(q, papers) ==
  Awaited("retriever", q, IF Len(papers) = 0 THEN "empty" ELSE "papers")

\* Mutant of RetrieveOutcomes: the retry does not look at the number of
\* papers the first retrieval returned.
RetrieveOutcomesAlwaysRetry(q, g, has_reformulator) ==
  LET gen == IF g = 1
             THEN << Awaited("query_generator", "question", "answered") >>
             ELSE << >>
      ask == Awaited("query_reformulator", q, "answered")
  IN
  { SearchRaise("retriever", g, 1, 0,
                gen \o << Awaited("retriever", q, "raised") >>) }
  \cup UNION {
       IF has_reformulator
       THEN { SearchRaise("query_reformulator", g, 1, 1,
                gen \o << Retrieved(q, p1),
                          Awaited("query_reformulator", q, "raised") >>) }
            \cup UNION {
                 IF b # "" /\ b # q
                 THEN { SearchRaise("retriever", g, 2, 1,
                          gen \o << Retrieved(q, p1), ask,
                                    Awaited("retriever", b, "raised") >>) }
                      \cup { SearchReturn(b, p2, q, g, 2, 1,
                               gen \o << Retrieved(q, p1), ask,
                                         Retrieved(b, p2) >>) :
                               p2 \in RetrievalResults }
                 ELSE { SearchReturn(q, p1, None, g, 1, 1,
                          gen \o << Retrieved(q, p1), ask >>) }
                 : b \in BroaderQueries }
       ELSE { SearchReturn(q, p1, None, g, 1, 0,
                           gen \o << Retrieved(q, p1) >>) }
       : p1 \in RetrievalResults }

\* From the first retrieval on, with search query q and g query-generator
\* calls made.
RetrieveOutcomes(q, g, has_reformulator) ==
  LET gen == IF g = 1
             THEN << Awaited("query_generator", "question", "answered") >>
             ELSE << >>
      ask == Awaited("query_reformulator", q, "answered")
  IN
  { SearchRaise("retriever", g, 1, 0,
                gen \o << Awaited("retriever", q, "raised") >>) }
  \cup UNION {
       IF Len(p1) = 0 /\ has_reformulator
       THEN { SearchRaise("query_reformulator", g, 1, 1,
                gen \o << Retrieved(q, p1),
                          Awaited("query_reformulator", q, "raised") >>) }
            \cup UNION {
                 IF b # "" /\ b # q
                 THEN { SearchRaise("retriever", g, 2, 1,
                          gen \o << Retrieved(q, p1), ask,
                                    Awaited("retriever", b, "raised") >>) }
                      \cup { SearchReturn(b, p2, q, g, 2, 1,
                               gen \o << Retrieved(q, p1), ask,
                                         Retrieved(b, p2) >>) :
                               p2 \in RetrievalResults }
                 ELSE { SearchReturn(q, p1, None, g, 1, 1,
                          gen \o << Retrieved(q, p1), ask >>) }
                 : b \in BroaderQueries }
       ELSE { SearchReturn(q, p1, None, g, 1, 0,
                           gen \o << Retrieved(q, p1) >>) }
       : p1 \in RetrievalResults }

ExecuteSearchStep(pre, has_query_generator, has_reformulator) ==
  IF pre # None /\ pre # ""
  THEN RetrieveOutcomes(pre, 0, has_reformulator)
  ELSE IF has_query_generator
  THEN { SearchRaise("query_generator", 1, 0, 0,
                     << Awaited("query_generator", "question", "raised") >>) }
       \cup UNION { RetrieveOutcomes(q, 1, has_reformulator) : q \in Queries }
  ELSE RetrieveOutcomes("question", 0, has_reformulator)

StepStart ==
  /\ pc = "step_loop"
  /\ step_idx <= Len(steps)
  /\ LET step == steps[step_idx] IN
       /\ Emit(<< StepEv("step_start", step.id) >>
               \o IF step.needs_search /\ pre_generated_query = None
                  THEN << ActEv(step.id, "generating_query") >> ELSE << >>)
       /\ pc' = IF step.needs_search THEN "search" ELSE "think"
  /\ UNCHANGED << cfg, question, history, storeVars, chatVars,
                  helper, gap_result,
                  refinement, intent_task, query_task, is_research,
                  pre_generated_query, steps, step_idx, all_papers,
                  unique_papers, token_count, exc, persisted, title_call,
                  refinement_papers, calls >>

\* Mutant of SearchStep: the pre-generated query is not reset after the
\* step that used it.
SearchStepKeepsQuery ==
  /\ pc = "search"
  /\ LET step == steps[step_idx] IN
     \E o \in ExecuteSearchStep(pre_generated_query, cfg.query_generator,
                                cfg.query_reformulator) :
       /\ calls' = [calls EXCEPT
                      !.query_generator = @ + o.n_query_generator,
                      !.retriever = @ + o.n_retriever,
                      !.reformulator = @ + o.n_reformulator]
       /\ IF o.raised # None
          THEN /\ Raise(o.raised)
               /\ UNCHANGED << events, pre_generated_query, all_papers >>
          ELSE /\ pre_generated_query' = pre_generated_query
               /\ all_papers' = all_papers \o o.papers
               /\ Emit((IF o.original_query # None
                        THEN << ActEv(step.id, "reformulated_query") >>
                        ELSE << >>)
                       \o << ActEv(step.id, "search"),
                             StepEv("step_action_result", step.id) >>)
               /\ pc' = "think"
               /\ UNCHANGED exc
  /\ UNCHANGED << cfg, question, history, storeVars, chatVars,
                  helper, gap_result,
                  refinement, intent_task, query_task, is_research, steps,
                  step_idx, unique_papers, token_count, persisted, title_call,
                  refinement_papers >>

SearchStep ==
  /\ pc = "search"
  /\ LET step == steps[step_idx] IN
     \E o \in ExecuteSearchStep(pre_generated_query, cfg.query_generator,
                                cfg.query_reformulator) :
       /\ calls' = [calls EXCEPT
                      !.query_generator = @ + o.n_query_generator,
                      !.retriever = @ + o.n_retriever,
                      !.reformulator = @ + o.n_reformulator]
       /\ IF o.raised # None
          THEN /\ Raise(o.raised)
               /\ UNCHANGED << events, pre_generated_query, all_papers >>
          ELSE /\ pre_generated_query' = None
               /\ all_papers' = all_papers \o o.papers
               /\ Emit((IF o.original_query # None
                        THEN << ActEv(step.id, "reformulated_query") >>
                        ELSE << >>)
                       \o << ActEv(step.id, "search"),
                             StepEv("step_action_result", step.id) >>)
               /\ pc' = "think"
               /\ UNCHANGED exc
  /\ UNCHANGED << cfg, question, history, storeVars, chatVars,
                  helper, gap_result,
                  refinement, intent_task, query_task, is_research, steps,
                  step_idx, unique_papers, token_count, persisted, title_call,
                  refinement_papers >>

\* Mutant of ThinkStep: step_done is only emitted when the thinker ran.
ThinkStepNoDone ==
  /\ pc = "think"
  /\ LET step == steps[step_idx] IN
     IF cfg.planner
     THEN /\ Called("thinker")
          /\ \E n \in 0..ChunksLeft(events) :
               \/ /\ Emit(Repeat(StepEv("step_thinking", step.id), n)
                          \o << StepEv("step_done", step.id) >>)
                  /\ pc' = "step_loop"
                  /\ step_idx' = step_idx + 1
                  /\ UNCHANGED exc
               \/ /\ Emit(Repeat(StepEv("step_thinking", step.id), n))
                  /\ Raise("thinker")
                  /\ UNCHANGED step_idx
     ELSE /\ pc' = "step_loop"
          /\ step_idx' = step_idx + 1
          /\ UNCHANGED << events, exc, calls >>
  /\ UNCHANGED << cfg, question, history, storeVars, chatVars,
                  helper, gap_result,
                  refinement, intent_task, query_task, is_research,
                  pre_generated_query, steps, all_papers, unique_papers,
                  token_count, persisted, title_call, refinement_papers >>

\* _stream_step_thinking: some step_thinking chunks, then the end of the
\* stream or an exception; then step_done.
ThinkStep ==
  /\ pc = "think"
  /\ LET step == steps[step_idx] IN
     IF cfg.planner
     THEN /\ Called("thinker")
          /\ \E n \in 0..ChunksLeft(events) :
               \/ /\ Emit(Repeat(StepEv("step_thinking", step.id), n)
                          \o << StepEv("step_done", step.id) >>)
                  /\ pc' = "step_loop"
                  /\ step_idx' = step_idx + 1
                  /\ UNCHANGED exc
               \/ /\ Emit(Repeat(StepEv("step_thinking", step.id), n))
                  /\ Raise("thinker")
                  /\ UNCHANGED step_idx
     ELSE /\ Emit(<< StepEv("step_done", step.id) >>)
          /\ pc' = "step_loop"
          /\ step_idx' = step_idx + 1
          /\ UNCHANGED << exc, calls >>
  /\ UNCHANGED << cfg, question, history, storeVars, chatVars,
                  helper, gap_result,
                  refinement, intent_task, query_task, is_research,
                  pre_generated_query, steps, all_papers, unique_papers,
                  token_count, persisted, title_call, refinement_papers >>


(***************************************************************************)
(* 5. The final answer, the citation audit, the refinement round, the      *)
(* title and the terminator.                                               *)
(***************************************************************************)
\* _paper_summary: one numbered line per element of the list it is given.
PaperSummary(papers) ==
  [i \in 1..Len(papers) |-> [number |-> i, paper |-> papers[i]]]

RECURSIVE Dedup(_)
\* The papers of a list, each id kept at its first occurrence.
Dedup(papers) ==
  IF papers = << >> THEN << >>
  ELSE LET front == Dedup(SubSeq(papers, 1, Len(papers) - 1))
           last == papers[Len(papers)]
       IN  IF \E i \in 1..Len(front) : front[i] = last
           THEN front ELSE Append(front, last)

AnswerStart ==
  /\ pc = "step_loop"
  /\ step_idx > Len(steps)
  /\ Emit(<< Ev("answer_start") >>)
  /\ unique_papers' = Dedup(all_papers)
  /\ Called("program")
  /\ pc' = "answer_stream"
  /\ UNCHANGED << cfg, question, history, storeVars, chatVars,
                  helper, gap_result,
                  refinement, intent_task, query_task, is_research,
                  pre_generated_query, steps, step_idx, all_papers,
                  token_count, exc,
                  persisted, title_call, refinement_papers >>

AnswerToken ==
  /\ pc = "answer_stream"
  /\ ChunksLeft(events) > 0
  /\ token_count' = token_count + 1
  /\ Emit(<< Ev("token") >>)
  /\ UNCHANGED << pc, cfg, question, history, storeVars, chatVars,
                  helper, gap_result,
                  refinement, intent_task, query_task, is_research,
                  pre_generated_query, steps, step_idx, all_papers,
                  unique_papers, exc, persisted, title_call,
                  refinement_papers, calls >>

AnswerStreamRaise ==
  /\ pc = "answer_stream"
  /\ Raise("answer")
  /\ UNCHANGED << events, cfg, question, history, storeVars, chatVars,
                  helper, gap_result,
                  refinement, intent_task, query_task, is_research,
                  pre_generated_query, steps, step_idx, all_papers,
                  unique_papers, token_count, persisted, title_call,
                  refinement_papers, calls >>

\* Mutant of AnswerPrediction: the audit is emitted ahead of `done`.
AnswerPredictionAuditFirst ==
  /\ pc = "answer_stream"
  /\ Emit(<< Ev("citation_audit"), MsgEv("done", "answer") >>)
  /\ persisted' = InvokeOnComplete("answer", pre_generated_query)
  /\ pc' = IF cfg.gap_detector /\ is_research THEN "gap" ELSE "title"
  /\ UNCHANGED << cfg, question, history, storeVars, chatVars,
                  helper, gap_result,
                  refinement, intent_task, query_task, is_research,
                  pre_generated_query, steps, step_idx, all_papers,
                  unique_papers, token_count, exc, title_call,
                  refinement_papers, calls >>

AnswerPrediction ==
  /\ pc = "answer_stream"
  /\ LET final_answer == "answer" IN
       /\ Emit(<< MsgEv("done", final_answer) >>)
       /\ persisted' = InvokeOnComplete(final_answer, pre_generated_query)
  /\ pc' = "audit"
  /\ UNCHANGED << cfg, question, history, storeVars, chatVars,
                  helper, gap_result,
                  refinement, intent_task, query_task, is_research,
                  pre_generated_query, steps, step_idx, all_papers,
                  unique_papers, token_count, exc, title_call,
                  refinement_papers, calls >>

\* Resumes after `await on_complete(...)`; then the audit, a pure function.
CitationAudit ==
  /\ pc = "audit"
  /\ OnCompleteAwaited(persisted)
  /\ Emit(<< Ev("citation_audit") >>)
  /\ pc' = IF cfg.gap_detector /\ is_research THEN "gap" ELSE "title"
  /\ UNCHANGED << cfg, question, history, storeVars, chatVars,
                  helper, gap_result,
                  refinement, intent_task, query_task, is_research,
                  pre_generated_query, steps, step_idx, all_papers,
                  unique_papers, token_count, exc, persisted, title_call,
                  refinement_papers, calls >>

\* str.strip(): the leading and trailing blanks of a text dropped.
Trim(s) ==
  LET keep == { i \in 1..Len(s) : s[i] # " " }
  IN  IF keep = {} THEN << >>
      ELSE LET lo == CHOOSE i \in keep : \A j \in keep : i <= j
               hi == CHOOSE i \in keep : \A j \in keep : i >= j
           IN  SubSeq(s, lo, hi)

\* What the gap detector may answer: either verdict, with a gap_query that
\* is blank or one that has text in it.
GapQueries == { << " " >>, << " ", "g" >> }
GapVerdicts == [verdict : { "complete", "partial" }, gap_query : GapQueries]

\* Mutant of DetectGap: a partial verdict starts the round whatever the
\* gap_query holds.
DetectGapAnyQuery ==
  /\ pc = "gap"
  /\ Called("gap_detector")
  /\ \/ \E g \in GapVerdicts :
          /\ gap_result' = g
          /\ IF g.verdict = "partial"
             THEN /\ Emit(<< Ev("refinement_start") >>)
                  /\ refinement' = [phase |-> "retrieving",
                                    gap_q |-> Trim(g.gap_query)]
                  /\ pc' = "refine_retrieve"
             ELSE /\ pc' = "title"
                  /\ UNCHANGED << events, refinement >>
     \/ /\ gap_result' = [NoGapResult EXCEPT !.verdict = "raised"]
        /\ pc' = "title"
        /\ UNCHANGED << events, refinement >>
  /\ UNCHANGED << cfg, question, history, storeVars, chatVars,
                  helper, intent_task, query_task, is_research,
                  pre_generated_query, steps, step_idx, all_papers,
                  unique_papers, token_count, exc, persisted, title_call,
                  refinement_papers >>

\* The gap detector answers or raises; a partial verdict whose gap_query is
\* not blank starts the refinement round.  Every exception from here to
\* refinement_done is caught by the handler of line 594.
DetectGap ==
  /\ pc = "gap"
  /\ Called("gap_detector")
  /\ \/ \E g \in GapVerdicts :
          /\ gap_result' = g
          /\ IF g.verdict = "partial" /\ Trim(g.gap_query) # << >>
             THEN /\ Emit(<< Ev("refinement_start") >>)
                  /\ refinement' = [phase |-> "retrieving",
                                    gap_q |-> Trim(g.gap_query)]
                  /\ pc' = "refine_retrieve"
             ELSE /\ pc' = "title"
                  /\ UNCHANGED << events, refinement >>
     \/ /\ gap_result' = [NoGapResult EXCEPT !.verdict = "raised"]
        /\ pc' = "title"
        /\ UNCHANGED << events, refinement >>
  /\ UNCHANGED << cfg, question, history, storeVars, chatVars,
                  helper, intent_task, query_task, is_research,
                  pre_generated_query, steps, step_idx, all_papers,
                  unique_papers, token_count, exc, persisted, title_call,
                  refinement_papers >>

\* The papers of `extra` whose id the answer's candidate set does not hold.
NewPapers(extra, seen) ==
  SelectSeq(extra, LAMBDA p : \A i \in 1..Len(seen) : seen[i] # p)

\* all_refinement_papers: the answer's candidates, then the new papers.
MergeRefinementPapers(unique, extra) == unique \o NewPapers(extra, unique)

\* The retrieval with gap_q, then the start of the regeneration.
RefineRetrieve ==
  /\ pc = "refine_retrieve"
  /\ \/ \E extra \in RetrievalResults :
          /\ Emit(<< Ev("refinement_search") >>)
          /\ refinement_papers' = MergeRefinementPapers(unique_papers, extra)
          /\ calls' = [calls EXCEPT !.retriever = @ + 1, !.program = @ + 1]
          /\ refinement' = [refinement EXCEPT !.phase = "streaming"]
          /\ pc' = "refine_stream"
     \/ /\ Called("retriever")
        /\ refinement' = [refinement EXCEPT !.phase = "retrieval_raised"]
        /\ pc' = "title"
        /\ UNCHANGED << events, refinement_papers >>
  /\ UNCHANGED << cfg, question, history, storeVars, chatVars,
                  helper, gap_result, intent_task, query_task,
                  is_research, pre_generated_query, steps, step_idx,
                  all_papers, unique_papers, token_count, exc, persisted,
                  title_call >>

RefineToken ==
  /\ pc = "refine_stream"
  /\ ChunksLeft(events) > 0
  /\ Emit(<< Ev("refinement_token") >>)
  /\ UNCHANGED << pc, cfg, question, history, storeVars, chatVars,
                  helper, gap_result, refinement,
                  intent_task, query_task, is_research,
                  pre_generated_query, steps, step_idx, all_papers,
                  unique_papers, token_count, exc, persisted, title_call,
                  refinement_papers, calls >>

\* Mutant of RefineStreamRaise: the failure of the regeneration is not
\* caught at its call site.
RefineStreamRaiseEscapes ==
  /\ pc = "refine_stream"
  /\ refinement' = [refinement EXCEPT !.phase = "stream_raised"]
  /\ Raise("refinement")
  /\ UNCHANGED << events, cfg, question, history, storeVars, chatVars,
                  helper, gap_result,
                  intent_task, query_task, is_research,
                  pre_generated_query, steps, step_idx, all_papers,
                  unique_papers, token_count, persisted, title_call,
                  refinement_papers, calls >>

RefineStreamRaise ==
  /\ pc = "refine_stream"
  /\ refinement' = [refinement EXCEPT !.phase = "stream_raised"]
  /\ pc' = "title"
  /\ UNCHANGED << events, cfg, question, history, storeVars, chatVars,
                  helper, gap_result,
                  intent_task, query_task, is_research,
                  pre_generated_query, steps, step_idx, all_papers,
                  unique_papers, token_count, exc, persisted, title_call,
                  refinement_papers, calls >>

\* Mutant of RefinePrediction: the refined answer is handed to on_complete
\* as well.
RefinePredictionPersists ==
  /\ pc = "refine_stream"
  /\ Emit(<< MsgEv("refinement_done", "refined") >>)
  /\ refinement' = [refinement EXCEPT !.phase = "done"]
  /\ persisted' = InvokeOnComplete("refined", persisted.search_query)
  /\ pc' = "title"
  /\ UNCHANGED << cfg, question, history, storeVars, chatVars,
                  helper, gap_result,
                  intent_task, query_task, is_research,
                  pre_generated_query, steps, step_idx, all_papers,
                  unique_papers, token_count, exc, title_call,
                  refinement_papers, calls >>

RefinePrediction ==
  /\ pc = "refine_stream"
  /\ Emit(<< MsgEv("refinement_done", "refined") >>)
  /\ refinement' = [refinement EXCEPT !.phase = "done"]
  /\ pc' = "title"
  /\ UNCHANGED << cfg, question, history, storeVars, chatVars,
                  helper, gap_result,
                  intent_task, query_task, is_research,
                  pre_generated_query, steps, step_idx, all_papers,
                  unique_papers, token_count, exc, persisted, title_call,
                  refinement_papers, calls >>

\* `title = await generate_title(...)`, on either path, when the caller
\* asked for a title.  On the general path this is where the generator
\* resumes after `await on_complete(...)`.
CallTitle ==
  /\ pc = "title"
  /\ OnCompleteAwaited(persisted)
  /\ IF cfg.generate_title
     THEN /\ title_call' = "pending"
          /\ pc' = "await_title"
     ELSE /\ pc' = "finish"
          /\ UNCHANGED title_call
  /\ UNCHANGED << events, cfg, question, history, storeVars, chatVars,
                  helper, gap_result,
                  refinement, intent_task, query_task, is_research,
                  pre_generated_query, steps, step_idx, all_papers,
                  unique_papers, token_count, exc, persisted,
                  refinement_papers, calls >>

\* The title call returns a title, or raises and the exception is caught.
TitleReturn ==
  /\ pc = "await_title"
  /\ \/ /\ title_call' = "returned"
        /\ Emit(<< MsgEv("title", "title") >>)
     \/ /\ title_call' = "raised"
        /\ UNCHANGED events
  /\ pc' = "finish"
  /\ UNCHANGED << cfg, question, history, storeVars, chatVars,
                  helper, gap_result,
                  refinement, intent_task, query_task, is_research,
                  pre_generated_query, steps, step_idx, all_papers,
                  unique_papers, token_count, exc, persisted,
                  refinement_papers, calls >>

\* The end of the try body: the metadata item of the research path when
\* asked for, then the terminator.
Finish ==
  /\ pc = "finish"
  /\ Emit((IF is_research /\ cfg.include_metadata
           THEN << Ev("metadata") >> ELSE << >>) \o << DONE >>)
  /\ pc' = "closed"
  /\ UNCHANGED << cfg, question, history, storeVars, chatVars,
                  helper, gap_result,
                  refinement, intent_task, query_task, is_research,
                  pre_generated_query, steps, step_idx, all_papers,
                  unique_papers, token_count, exc, persisted, title_call,
                  refinement_papers, calls >>

\* Mutants of HandleException: one forgets the terminator, one replaces the
\* failure message by a fixed text.
HandleExceptionNoTerminator ==
  /\ pc = "except"
  /\ Emit(<< MsgEv("error", exc) >>)
  /\ pc' = "closed"
  /\ UNCHANGED << cfg, question, history, storeVars, chatVars,
                  helper, gap_result,
                  refinement, intent_task, query_task, is_research,
                  pre_generated_query, steps, step_idx, all_papers,
                  unique_papers, token_count, exc, persisted, title_call,
                  refinement_papers, calls >>

HandleExceptionFixedText ==
  /\ pc = "except"
  /\ Emit(<< MsgEv("error", "Internal error"), DONE >>)
  /\ pc' = "closed"
  /\ UNCHANGED << cfg, question, history, storeVars, chatVars,
                  helper, gap_result,
                  refinement, intent_task, query_task, is_research,
                  pre_generated_query, steps, step_idx, all_papers,
                  unique_papers, token_count, exc, persisted, title_call,
                  refinement_papers, calls >>

\* `except Exception as e`: the error item carrying str(e), then the
\* terminator.
HandleException ==
  /\ pc = "except"
  /\ Emit(<< MsgEv("error", exc), DONE >>)
  /\ pc' = "closed"
  /\ UNCHANGED << cfg, question, history, storeVars, chatVars,
                  helper, gap_result,
                  refinement, intent_task, query_task, is_research,
                  pre_generated_query, steps, step_idx, all_papers,
                  unique_papers, token_count, exc, persisted, title_call,
                  refinement_papers, calls >>

Next ==
  \/ Begin
  \/ IntentThreadFinish
  \/ QueryThreadFinish
  \/ AwaitIntent
  \/ EmitClassified
  \/ Acknowledge
  \/ GeneralStart
  \/ GeneralToken
  \/ GeneralStreamRaise
  \/ GeneralPrediction
  \/ OnCompleteReturn
  \/ CollectQuery
  \/ MakePlan
  \/ StepStart
  \/ SearchStep
  \/ ThinkStep
  \/ AnswerStart
  \/ AnswerToken
  \/ AnswerStreamRaise
  \/ AnswerPrediction
  \/ CitationAudit
  \/ DetectGap
  \/ RefineRetrieve
  \/ RefineToken
  \/ RefineStreamRaise
  \/ RefinePrediction
  \/ CallTitle
  \/ TitleReturn
  \/ Finish
  \/ HandleException

Spec == Init /\ [][Next]_vars


\* Every collaborator call eventually returns or raises, and the consumer
\* keeps reading the stream: whatever can happen next eventually does.
FairSpec == Spec /\ WF_vars(Next)

(***************************************************************************)
(* The pure helpers on their own: one call of one helper, its arguments   *)
(* drawn from bounded sets, the session left where it starts.              *)
(***************************************************************************)
\* Words of a question: no keyword, a keyword in capitals, a keyword with
\* characters of strip("?,.:") around it, a keyword followed by another
\* punctuation mark, a keyword inside a longer word.
HeuristicWords ==
  { << "H","i" >>, << "V","s" >>, << "v","s","." >>,
    << "?","A","l","s","o",":" >>, << "V","s","!" >>, << "v","s","x" >> }

\* `q` lengthened to n words with a word that is no keyword.
Pad(q, n) == [i \in 1..n |-> IF i <= Len(q) THEN q[i] ELSE << "H","i" >>]

\* Questions of up to MaxWords free words, and the same questions
\* lengthened to one word below and to exactly the length gate.
ShortQuestions == UNION { [1..n -> HeuristicWords] : n \in 0..MaxWords }
HeuristicQuestions ==
  ShortQuestions
    \cup { Pad(q, n) : q \in ShortQuestions,
                       n \in { LongQuestionWords - 1, LongQuestionWords } }

\* Raw source lists of a prediction: ids of retrieved papers, possibly
\* repeated, and an id no retrieved paper has.
SourceIds == { "p1", "p2", "x" }
SourceLists == UNION { [1..n -> SourceIds] : n \in 0..MaxSources }
CandidateSets == { << >>, << "p1" >>, << "p1", "p2" >> }

\* Answer texts, and the CitedPaper lists the orchestrator can hand to the
\* audit together with them.
AnswerChars == { "[", "]", ",", "1", "2" }
Answers == UNION { [1..n -> AnswerChars] : n \in 0..MaxAnswerLen }
CitedLists == { BuildCitedPapers(src, << "p1", "p2" >>) : src \in SourceLists }

\* What _load_history gives chat_basic: the turns of the conversation,
\* oldest first, as the cache or as the store has them.  No history (None)
\* is the empty list here: the code tests raw_history for truth only.
LoadedHistories ==
  { [i \in 1..n |-> Message(i)] : n \in 0..MaxHistoryLen }
    \cup { [i \in 1..n |-> Row(i)] : n \in 0..MaxHistoryLen }

\* chat.py 101-102: `raw_history[-5:]` when there are more than 5 turns.
HistoryCap == 5
\* The cap taking the oldest turns, raw_history[:5].
CapHistoryOldest(raw_history) ==
  IF raw_history # << >> /\ Len(raw_history) > HistoryCap
  THEN SubSeq(raw_history, 1, HistoryCap)
  ELSE raw_history

CapHistory(raw_history) ==
  IF raw_history # << >> /\ Len(raw_history) > HistoryCap
  THEN SubSeq(raw_history, Len(raw_history) - HistoryCap + 1,
              Len(raw_history))
  ELSE raw_history

\* _convert_to_dspy_history: one entry per message, in the same order,
\* with the message's question, answer, context and sources.
ConvertToDspyHistory(history_messages) ==
  [i \in 1..Len(history_messages) |->
     [turn |-> history_messages[i].turn, shape |-> "history_entry"]]

\* What one retrieval may return to the refinement: up to top_k papers, an
\* id possibly more than once.
top_k == 3
ExtraPaperIds == { "p1", "p2", "p3" }
ExtraPaperLists == UNION { [1..n -> ExtraPaperIds] : n \in 0..top_k }

\* The pre_generated_query a search step may be handed: none, the empty
\* string, or a query of the generator.
PreGeneratedQueries == { None, "" } \cup Queries

HelperCall(fn, args) ==
  [fn |-> fn, args |-> args, returned |-> FALSE, result |-> None]

HelperInit ==
  /\ StoreIdle
  /\ ChatIdle
  /\ pc = "start"
  /\ events = << >>
  /\ cfg = ChatBasicCall
  /\ question = SimpleQuestion
  /\ history = "none"
  /\ intent_task = NoTask
  /\ query_task = NoTask
  /\ is_research = TRUE
  /\ pre_generated_query = None
  /\ steps = << >>
  /\ step_idx = 0
  /\ all_papers = << >>
  /\ unique_papers = << >>
  /\ token_count = 0
  /\ exc = None
  /\ persisted = [status |-> None, answer |-> None, search_query |-> None]
  /\ title_call = None
  /\ refinement_papers = << >>
  /\ calls = NoCalls
  /\ gap_result = NoGapResult
  /\ refinement = NoRefinement
  /\ \/ \E q \in HeuristicQuestions :
          helper = HelperCall("_should_use_default_plan", [question |-> q])
     \/ \E raw \in PlannerOutputs :
          helper = HelperCall("create_plan", [raw |-> raw])
     \/ \E r \in BOOLEAN :
          helper = HelperCall("default_plan", [is_research |-> r])
     \/ \E src \in SourceLists, cand \in CandidateSets :
          helper = HelperCall("_build_cited_papers",
                              [source_ids |-> src, retrieved_papers |-> cand])
     \/ \E a \in Answers, c \in CitedLists :
          helper = HelperCall("_audit_citations",
                              [answer |-> a, cited_papers |-> c])
     \/ \E h \in LoadedHistories :
          helper = HelperCall("chat_basic", [raw_history |-> h])
     \/ \E unique \in CandidateSets, extra \in ExtraPaperLists :
          helper = HelperCall("refinement_merge",
                              [unique_papers |-> unique,
                               extra_papers |-> extra])
     \/ \E pre \in PreGeneratedQueries, g \in BOOLEAN, f \in BOOLEAN :
          helper = HelperCall("_execute_search_step",
                              [pre_generated_query |-> pre,
                               query_generator |-> g,
                               query_reformulator |-> f])

SessionUntouched ==
  UNCHANGED << pc, events, cfg, question, history, storeVars, chatVars,
               intent_task, query_task,
               is_research, pre_generated_query, steps, step_idx, all_papers,
               unique_papers, token_count, exc, persisted, title_call,
               refinement_papers, calls, gap_result, refinement >>

Return(value) ==
  helper' = [helper EXCEPT !.returned = TRUE, !.result = value]

CallShouldUseDefaultPlan ==
  /\ helper.fn = "_should_use_default_plan"
  /\ ~helper.returned
  /\ Return(ShouldUseDefaultPlan(helper.args.question))
  /\ SessionUntouched

CallCreatePlan ==
  /\ helper.fn = "create_plan"
  /\ ~helper.returned
  /\ Return(CreatePlan(helper.args.raw))
  /\ SessionUntouched

CallDefaultPlan ==
  /\ helper.fn = "default_plan"
  /\ ~helper.returned
  /\ Return(DefaultPlan(helper.args.is_research))
  /\ SessionUntouched

CallBuildCitedPapers ==
  /\ helper.fn = "_build_cited_papers"
  /\ ~helper.returned
  /\ Return(BuildCitedPapers(helper.args.source_ids,
                             helper.args.retrieved_papers))
  /\ SessionUntouched

CallAuditCitations ==
  /\ helper.fn = "_audit_citations"
  /\ ~helper.returned
  /\ Return(AuditCitations(helper.args.answer, helper.args.cited_papers))
  /\ SessionUntouched

\* chat_basic, lines 98-103: the history handed to the answer generator.
CallChatBasicHistory ==
  /\ helper.fn = "chat_basic"
  /\ ~helper.returned
  /\ Return(ConvertToDspyHistory(CapHistory(helper.args.raw_history)))
  /\ SessionUntouched

\* _execute_search_step: one of the ways the step can go.
CallExecuteSearchStep ==
  /\ helper.fn = "_execute_search_step"
  /\ ~helper.returned
  /\ \E o \in ExecuteSearchStep(helper.args.pre_generated_query,
                                helper.args.query_generator,
                                helper.args.query_reformulator) :
       Return(o)
  /\ SessionUntouched

\* stream_dspy_response, lines 566-570: the merge of the gap retrieval.
CallRefinementMerge ==
  /\ helper.fn = "refinement_merge"
  /\ ~helper.returned
  /\ Return(MergeRefinementPapers(helper.args.unique_papers,
                                  helper.args.extra_papers))
  /\ SessionUntouched

HelperNext ==
  \/ CallRefinementMerge
  \/ CallExecuteSearchStep
  \/ CallChatBasicHistory
  \/ CallShouldUseDefaultPlan
  \/ CallCreatePlan
  \/ CallDefaultPlan
  \/ CallBuildCitedPapers
  \/ CallAuditCitations

HelperSpec == HelperInit /\ [][HelperNext]_vars

(***************************************************************************)
(* The session manager: get_history and add_message of SessionManager,     *)
(* called directly and concurrently on one event loop.  A call is at one   *)
(* of its awaits; every cache or store round trip either answers or        *)
(* raises.  The cache entry of a conversation may expire at any time.      *)
(***************************************************************************)
sessionVars ==
  << pc, events, cfg, question, history, intent_task, query_task,
     is_research, pre_generated_query, steps, step_idx, all_papers,
     unique_papers, token_count, exc, persisted, title_call,
     refinement_papers, calls, gap_result, refinement >>

\* The session before its first step, with chat_basic's arguments.
SessionIdle ==
  /\ pc = "start"
  /\ events = << >>
  /\ cfg = ChatBasicCall
  /\ question = SimpleQuestion
  /\ history = "none"
  /\ intent_task = NoTask
  /\ query_task = NoTask
  /\ is_research = TRUE
  /\ pre_generated_query = None
  /\ steps = << >>
  /\ step_idx = 0
  /\ all_papers = << >>
  /\ unique_papers = << >>
  /\ token_count = 0
  /\ exc = None
  /\ persisted = [status |-> None, answer |-> None, search_query |-> None]
  /\ title_call = None
  /\ refinement_papers = << >>
  /\ calls = NoCalls
  /\ gap_result = NoGapResult
  /\ refinement = NoRefinement

\* get_session_factory() is None when no database is configured.
ManagerInit ==
  /\ SessionIdle
  /\ helper = NoHelper
  /\ ChatIdle
  /\ redis_client = None
  /\ cache = [c \in ConversationIds |-> << >>]
  /\ \E configured \in BOOLEAN :
       database = [configured |-> configured, conversations |-> {},
                   messages |-> [c \in ConversationIds |-> << >>]]
  /\ tasks = [t \in TaskIds |-> IdleCall]
  /\ made = [calls |-> 0, adds |-> 0]
  /\ added = [c \in ConversationIds |->
              [turns |-> << >>, plain |-> TRUE, untroubled |-> TRUE,
               stored |-> TRUE]]
  /\ observed = [c \in ConversationIds |-> NoObservation]

StoreOnly == UNCHANGED << sessionVars, helper, chatVars >>

\* messages[-n:] for n >= 1.
LastN(s, n) == IF Len(s) > n THEN SubSeq(s, Len(s) - n + 1, Len(s)) ELSE s

\* `limit or self.max_messages`.
EffectiveLimit(limit) == IF limit = 0 THEN MaxRetention ELSE limit

\* ConversationCRUD.get_messages: the last `limit` rows of the conversation,
\* oldest first.
GetMessages(c, limit) == LastN(database.messages[c], limit)

\* ConversationCRUD.upsert_conversation and add_message: the conversation
\* row exists afterwards, and the turn is the conversation's newest row.
UpsertAndAdd(c, turn) ==
  [database EXCEPT !.conversations = @ \cup { c },
                   !.messages[c] = Append(@, turn)]

\* load_from_database when the store answers: the rows as dicts.
LoadFromDatabase(c, limit) ==
  IF ~database.configured THEN << >>
  ELSE [i \in 1..Len(GetMessages(c, limit)) |-> Row(GetMessages(c, limit)[i])]

InProgress(call) == call.pc \notin { "idle", "returned" }
Untroubled(call) == call.cache_failure = None /\ ~call.db_failed

\* What a returning get_history call leaves to compare the next one with.
Observe(t, call) ==
  LET c == call.cid
      o == observed[c]
      clean == Untroubled(call) /\ ~call.overlapped
  IN  observed' = [observed EXCEPT ![c] =
        IF ~clean THEN NoObservation
        ELSE IF o.state = "rereading"
        THEN [state |-> "compared", last |-> call.result, prev |-> o.last,
              limit |-> call.limit]
        ELSE [state |-> "fresh", last |-> call.result, prev |-> << >>,
              limit |-> call.limit]]

\* The record of a returned call is the caller's to read in the state the
\* call returns in; the next step of any call drops it.
Settled ==
  [u \in TaskIds |-> IF tasks[u].pc = "returned" THEN IdleCall ELSE tasks[u]]

Busy(t, c) ==
  \E u \in TaskIds \ { t } : InProgress(tasks[u]) /\ tasks[u].cid = c

\* A call on conversation c starts: the calls on c in progress overlap it.
Overlap(t, c, call) ==
  [u \in TaskIds |->
     IF u = t THEN [call EXCEPT !.overlapped = Busy(t, c)]
     ELSE IF InProgress(tasks[u]) /\ tasks[u].cid = c
     THEN [tasks[u] EXCEPT !.overlapped = TRUE]
     ELSE Settled[u]]

\* The conversation ids are interchangeable: the first call is on "c1".
FirstOnC1(c) == made.calls = 0 => c = "c1"

EnterAddMessage(t, c) ==
  /\ FirstOnC1(c)
  /\ tasks' = Overlap(t, c,
       [IdleCall EXCEPT !.op = "add_message", !.cid = c, !.pc = "connect",
                        !.turn = made.adds + 1])
  /\ made' = [calls |-> made.calls + 1, adds |-> made.adds + 1]
  /\ observed' = [observed EXCEPT ![c] = NoObservation]
  /\ UNCHANGED << redis_client, cache, database, added >>
  /\ StoreOnly

EnterGetHistory(t, c, l) ==
  /\ FirstOnC1(c)
  /\ tasks' = Overlap(t, c,
       [IdleCall EXCEPT !.op = "get_history", !.cid = c, !.pc = "connect",
                        !.limit = l])
  /\ made' = [made EXCEPT !.calls = @ + 1]
  /\ observed' = [observed EXCEPT ![c] =
       IF @.state = "cleared" /\ l = @.limit /\ ~Busy(t, c)
       THEN [@ EXCEPT !.state = "rereading"]
       ELSE NoObservation]
  /\ UNCHANGED << redis_client, cache, database, added >>
  /\ StoreOnly

\* Concurrent callers: a coroutine without a call in progress makes its
\* next call; "b" only while "a" is busy.
MayStart(t) ==
  /\ ~InProgress(tasks[t])
  /\ made.calls < MaxCalls
  /\ t = "b" => InProgress(tasks["a"])

StartAddMessage(t, c) == MayStart(t) /\ EnterAddMessage(t, c)
StartGetHistory(t, c, l) == MayStart(t) /\ EnterGetHistory(t, c, l)

\* One caller that awaits each call before it makes the next.
MayFollow ==
  /\ \A t \in TaskIds : ~InProgress(tasks[t])
  /\ made.calls < MaxTurns

NextAddMessage(c) == MayFollow /\ EnterAddMessage("a", c)
NextGetHistory(c, l) == MayFollow /\ EnterGetHistory("a", c, l)

\* connect(): nothing to do with a handle; otherwise from_url and ping,
\* which give a client or raise (caught: _redis = None, return False).
\* add_message goes on to the store either way, get_history to the store
\* when there is no cache.
Connect(t) ==
  /\ tasks[t].pc = "connect"
  /\ \/ /\ redis_client # None
        /\ tasks' = [Settled EXCEPT ![t] =
             [@ EXCEPT !.pc = "cache_get",
                       !.handle_at_connect = redis_client]]
        /\ UNCHANGED redis_client
     \/ /\ redis_client = None
        /\ redis_client' = "client"
        /\ tasks' = [Settled EXCEPT ![t] =
             [@ EXCEPT !.pc = "cache_get", !.connect_attempted = TRUE]]
  /\ UNCHANGED << cache, database, made, added, observed >>
  /\ StoreOnly

ConnectRaise(t) ==
  /\ tasks[t].pc = "connect"
  /\ redis_client = None
  /\ redis_client' = None
  /\ tasks' = [Settled EXCEPT ![t] =
       [@ EXCEPT !.pc = IF tasks[t].op = "add_message" THEN "save"
                        ELSE "load_fallback",
                 !.connect_attempted = TRUE,
                 !.cache_failure = "connect",
                 !.handle_after_failure = None]]
  /\ UNCHANGED << cache, database, made, added, observed >>
  /\ StoreOnly

(* add_message, lines 189-202: read the list, append, trim, write back.    *)
AddCacheGet(t) ==
  /\ tasks[t].op = "add_message"
  /\ tasks[t].pc = "cache_get"
  /\ redis_client # None
  /\ LET c == tasks[t].cid
     IN  tasks' = [Settled EXCEPT ![t] =
           [@ EXCEPT !.pc = "cache_setex",
                     !.messages = LastN(Append(cache[c], Message(tasks[t].turn)),
                                        MaxRetention)]]
  /\ UNCHANGED << redis_client, cache, database, made, added, observed >>
  /\ StoreOnly

AddCacheSetex(t) ==
  /\ tasks[t].op = "add_message"
  /\ tasks[t].pc = "cache_setex"
  /\ redis_client # None
  /\ cache' = [cache EXCEPT ![tasks[t].cid] = tasks[t].messages]
  /\ tasks' = [Settled EXCEPT ![t] = [@ EXCEPT !.pc = "update_metadata"]]
  /\ UNCHANGED << redis_client, database, made, added, observed >>
  /\ StoreOnly

\* The except of line 200 returning False instead of falling through to
\* the store.
AddCacheRaiseReturns(t) ==
  /\ tasks[t].op = "add_message"
  /\ tasks[t].pc \in { "cache_get", "cache_setex" }
  /\ redis_client' = None
  /\ tasks' = [Settled EXCEPT ![t] =
       [@ EXCEPT !.pc = "returned", !.cache_failure = tasks[t].pc,
                 !.handle_after_failure = None]]
  /\ UNCHANGED << cache, database, made, added, observed >>
  /\ StoreOnly

\* A cache round trip of add_message raises (also when another call has
\* dropped the handle meanwhile): the except of line 200.
AddCacheRaise(t) ==
  /\ tasks[t].op = "add_message"
  /\ tasks[t].pc \in { "cache_get", "cache_setex" }
  /\ redis_client' = None
  /\ tasks' = [Settled EXCEPT ![t] =
       [@ EXCEPT !.pc = "save", !.cache_failure = tasks[t].pc,
                 !.handle_after_failure = None]]
  /\ UNCHANGED << cache, database, made, added, observed >>
  /\ StoreOnly

\* _update_metadata: returns without a handle; otherwise reads the metadata
\* key, which only create_session writes, so there is nothing to update.
UpdateMetadata(t) ==
  /\ tasks[t].pc = "update_metadata"
  /\ tasks' = [Settled EXCEPT ![t] = [@ EXCEPT !.pc = "save"]]
  /\ UNCHANGED << redis_client, cache, database, made, added, observed >>
  /\ StoreOnly

\* The read of the metadata key raises: `except Exception: pass`.
UpdateMetadataRaise(t) ==
  /\ tasks[t].pc = "update_metadata"
  /\ redis_client # None
  /\ tasks' = [Settled EXCEPT ![t] =
       [@ EXCEPT !.pc = "save", !.cache_failure = "update_metadata",
                 !.handle_after_failure = redis_client]]
  /\ UNCHANGED << redis_client, cache, database, made, added, observed >>
  /\ StoreOnly

\* _save_to_database: nothing without a session factory; otherwise one
\* database session that upserts the conversation row and adds the message,
\* or raises (caught and logged).  add_message then returns True.
ReturnAdd(t, db_attempted, db_failed) ==
  LET call == [tasks[t] EXCEPT !.pc = "returned", !.save_called = TRUE,
                               !.db_attempted = db_attempted,
                               !.db_failed = db_failed, !.ok = TRUE]
  IN  /\ tasks' = [Settled EXCEPT ![t] = call]
      /\ added' = [added EXCEPT ![call.cid] =
            [turns |-> Append(@.turns, call.turn),
             plain |-> @.plain /\ Untroubled(call) /\ ~call.overlapped,
             untroubled |-> @.untroubled /\ Untroubled(call),
             stored |-> @.stored /\ ~db_failed]]

\* _save_to_database writing the list the call holds from the cache, as
\* sync_to_database does, instead of adding its one turn.
SaveToDatabaseWholeList(t) ==
  /\ tasks[t].pc = "save"
  /\ LET c == tasks[t].cid
         held == tasks[t].messages
     IN  IF database.configured
         THEN /\ database' =
                   [database EXCEPT
                      !.conversations = @ \cup { c },
                      !.messages[c] =
                         IF held = << >> THEN Append(@, tasks[t].turn)
                         ELSE [i \in 1..Len(held) |-> held[i].turn]]
              /\ ReturnAdd(t, TRUE, FALSE)
         ELSE /\ UNCHANGED database
              /\ ReturnAdd(t, FALSE, FALSE)
  /\ UNCHANGED << redis_client, cache, made, observed >>
  /\ StoreOnly

SaveToDatabase(t) ==
  /\ tasks[t].pc = "save"
  /\ LET c == tasks[t].cid
     IN  IF database.configured
         THEN /\ database' = UpsertAndAdd(c, tasks[t].turn)
              /\ ReturnAdd(t, TRUE, FALSE)
         ELSE /\ UNCHANGED database
              /\ ReturnAdd(t, FALSE, FALSE)
  /\ UNCHANGED << redis_client, cache, made, observed >>
  /\ StoreOnly

SaveToDatabaseRaise(t) ==
  /\ tasks[t].pc = "save"
  /\ database.configured
  /\ ReturnAdd(t, TRUE, TRUE)
  /\ UNCHANGED << redis_client, cache, database, made, observed >>
  /\ StoreOnly

(* get_history, lines 146-166.                                             *)
\* A call of get_history returns `res`.
ReturnHistory(t, res, db_failed) ==
  LET call == [tasks[t] EXCEPT !.pc = "returned", !.result = res,
                               !.db_failed = @ \/ db_failed]
  IN  /\ tasks' = [Settled EXCEPT ![t] = call]
      /\ Observe(t, call)

\* The read of the session key answers: a miss goes to the store, a hit is
\* cut to the limit and returned.
GetCacheGet(t) ==
  /\ tasks[t].op = "get_history"
  /\ tasks[t].pc = "cache_get"
  /\ redis_client # None
  /\ LET c == tasks[t].cid
         l == tasks[t].limit
     IN  IF cache[c] = << >>
         THEN /\ tasks' = [Settled EXCEPT ![t] = [@ EXCEPT !.pc = "load_miss"]]
              /\ UNCHANGED observed
         ELSE ReturnHistory(t, IF l # 0 /\ Len(cache[c]) > l
                                THEN LastN(cache[c], l) ELSE cache[c], FALSE)
  /\ UNCHANGED << redis_client, cache, database, made, added >>
  /\ StoreOnly

\* Cache miss: load from the store (a failing load gives []), and go on to
\* write a non-empty result back to the cache.
LoadOnMiss(t) ==
  /\ tasks[t].pc = "load_miss"
  /\ \E ok \in BOOLEAN :
       LET loaded == IF ok THEN LoadFromDatabase(tasks[t].cid,
                                                 EffectiveLimit(tasks[t].limit))
                     ELSE << >>
       IN  /\ (~ok) => database.configured
           /\ IF loaded # << >>
              THEN /\ tasks' = [Settled EXCEPT ![t] =
                        [@ EXCEPT !.pc = "repopulate", !.messages = loaded]]
                   /\ UNCHANGED observed
              ELSE ReturnHistory(t, << >>, ~ok)
  /\ UNCHANGED << redis_client, cache, database, made, added >>
  /\ StoreOnly

Repopulate(t) ==
  /\ tasks[t].pc = "repopulate"
  /\ redis_client # None
  /\ cache' = [cache EXCEPT ![tasks[t].cid] = tasks[t].messages]
  /\ ReturnHistory(t, tasks[t].messages, FALSE)
  /\ UNCHANGED << redis_client, database, made, added >>
  /\ StoreOnly

\* The except of line 163 without `self._redis = None`.
GetCacheRaiseKeepsHandle(t) ==
  /\ tasks[t].op = "get_history"
  /\ tasks[t].pc \in { "cache_get", "repopulate" }
  /\ tasks' = [Settled EXCEPT ![t] =
       [@ EXCEPT !.pc = "load_fallback", !.cache_failure = tasks[t].pc,
                 !.handle_after_failure = redis_client]]
  /\ UNCHANGED << redis_client, cache, database, made, added, observed >>
  /\ StoreOnly

\* A cache round trip of get_history raises: the except of line 163.
GetCacheRaise(t) ==
  /\ tasks[t].op = "get_history"
  /\ tasks[t].pc \in { "cache_get", "repopulate" }
  /\ redis_client' = None
  /\ tasks' = [Settled EXCEPT ![t] =
       [@ EXCEPT !.pc = "load_fallback", !.cache_failure = tasks[t].pc,
                 !.handle_after_failure = None]]
  /\ UNCHANGED << cache, database, made, added, observed >>
  /\ StoreOnly

\* Without a cache: what the store holds, or [] when the load fails.
LoadFallback(t) ==
  /\ tasks[t].pc = "load_fallback"
  /\ \E ok \in BOOLEAN :
       /\ (~ok) => database.configured
       /\ ReturnHistory(t, IF ok
                           THEN LoadFromDatabase(tasks[t].cid,
                                                 EffectiveLimit(tasks[t].limit))
                           ELSE << >>, ~ok)
  /\ UNCHANGED << redis_client, cache, database, made, added >>
  /\ StoreOnly

\* The TTL of a session key runs out, or the key is deleted.
Expire(c) ==
  /\ cache[c] # << >>
  /\ cache' = [cache EXCEPT ![c] = << >>]
  /\ observed' = [observed EXCEPT ![c] =
       IF @.state \in { "fresh", "compared" }
          /\ \A u \in TaskIds : ~(InProgress(tasks[u]) /\ tasks[u].cid = c)
       THEN [@ EXCEPT !.state = "cleared"]
       ELSE NoObservation]
  /\ tasks' = Settled
  /\ UNCHANGED << redis_client, database, made, added >>
  /\ StoreOnly

ManagerNext ==
  \/ \E t \in TaskIds, c \in ConversationIds : StartAddMessage(t, c)
  \/ \E t \in TaskIds, c \in ConversationIds, l \in Limits :
       StartGetHistory(t, c, l)
  \/ \E t \in TaskIds : Connect(t)
  \/ \E t \in TaskIds : ConnectRaise(t)
  \/ \E t \in TaskIds : AddCacheGet(t)
  \/ \E t \in TaskIds : AddCacheSetex(t)
  \/ \E t \in TaskIds : AddCacheRaise(t)
  \/ \E t \in TaskIds : UpdateMetadata(t)
  \/ \E t \in TaskIds : UpdateMetadataRaise(t)
  \/ \E t \in TaskIds : SaveToDatabase(t)
  \/ \E t \in TaskIds : SaveToDatabaseRaise(t)
  \/ \E t \in TaskIds : GetCacheGet(t)
  \/ \E t \in TaskIds : LoadOnMiss(t)
  \/ \E t \in TaskIds : Repopulate(t)
  \/ \E t \in TaskIds : GetCacheRaise(t)
  \/ \E t \in TaskIds : LoadFallback(t)
  \/ \E c \in ConversationIds : Expire(c)

ManagerSpec == ManagerInit /\ [][ManagerNext]_vars

\* The calls of one caller, one after the other.
Step(t) ==
  \/ Connect(t)
  \/ ConnectRaise(t)
  \/ AddCacheGet(t)
  \/ AddCacheSetex(t)
  \/ AddCacheRaise(t)
  \/ UpdateMetadata(t)
  \/ UpdateMetadataRaise(t)
  \/ SaveToDatabase(t)
  \/ SaveToDatabaseRaise(t)
  \/ GetCacheGet(t)
  \/ LoadOnMiss(t)
  \/ Repopulate(t)
  \/ GetCacheRaise(t)
  \/ LoadFallback(t)

SequentialNext ==
  \/ \E c \in ConversationIds : NextAddMessage(c)
  \/ \E c \in ConversationIds, l \in Limits : NextGetHistory(c, l)
  \/ Step("a")
  \/ \E c \in ConversationIds : Expire(c)

SequentialSpec == ManagerInit /\ [][SequentialNext]_vars

\* The other public operations that go to the cache: get_metadata,
\* delete_session, extend_ttl and prune_history.  Each awaits connect(),
\* drops its return value and calls self._redis; none has a handler.
CacheOperations ==
  { "get_metadata", "delete_session", "extend_ttl", "prune_history" }

\* One caller that awaits each call before it makes the next.
MayCall ==
  /\ \A t \in TaskIds : ~InProgress(tasks[t])
  /\ made.calls < MaxCalls

CallAddMessage(c) == MayCall /\ EnterAddMessage("a", c)
CallGetHistory(c, l) == MayCall /\ EnterGetHistory("a", c, l)

CallCacheOperation(op, c) ==
  /\ MayCall
  /\ FirstOnC1(c)
  /\ tasks' = [Settled EXCEPT !["a"] =
       [IdleCall EXCEPT !.op = op, !.cid = c, !.pc = "op_connect"]]
  /\ made' = [made EXCEPT !.calls = @ + 1]
  /\ observed' = [observed EXCEPT ![c] = NoObservation]
  /\ UNCHANGED << redis_client, cache, database, added >>
  /\ StoreOnly

\* `await self.connect()`: True with a handle, else a new client or, caught
\* inside connect(), no client and False; the operation goes on either way.
OperationConnect(t) ==
  /\ tasks[t].pc = "op_connect"
  /\ \/ /\ redis_client # None
        /\ tasks' = [Settled EXCEPT ![t] =
             [@ EXCEPT !.pc = "op_cache",
                       !.handle_at_connect = redis_client]]
        /\ UNCHANGED redis_client
     \/ /\ redis_client = None
        /\ redis_client' = "client"
        /\ tasks' = [Settled EXCEPT ![t] =
             [@ EXCEPT !.pc = "op_cache", !.connect_attempted = TRUE]]
     \/ /\ redis_client = None
        /\ redis_client' = None
        /\ tasks' = [Settled EXCEPT ![t] =
             [@ EXCEPT !.pc = "op_cache", !.connect_attempted = TRUE,
                       !.cache_failure = "connect",
                       !.handle_after_failure = None]]
  /\ UNCHANGED << cache, database, made, added, observed >>
  /\ StoreOnly

\* The cache round trips of the operation, answered: delete_session removes
\* the session key, prune_history keeps the last keep_last_n turns of it,
\* get_metadata and extend_ttl leave the turn list as it is.
OperationCache(t) ==
  /\ tasks[t].pc = "op_cache"
  /\ redis_client # None
  /\ LET c == tasks[t].cid IN
       \/ /\ tasks[t].op = "delete_session"
          /\ cache' = [cache EXCEPT ![c] = << >>]
       \/ /\ tasks[t].op = "prune_history"
          /\ \E keep_last_n \in 1..MaxRetention :
               cache' = [cache EXCEPT ![c] = LastN(@, keep_last_n)]
       \/ /\ tasks[t].op \in { "get_metadata", "extend_ttl" }
          /\ UNCHANGED cache
  /\ tasks' = [Settled EXCEPT ![t] = [@ EXCEPT !.pc = "returned"]]
  /\ UNCHANGED << redis_client, database, made, added, observed >>
  /\ StoreOnly

\* The operation raises: without a handle `self._redis.get(...)` is an
\* attribute access on None; with one, the round trip may fail.  Nothing
\* catches either, and the handle stays as it is.
OperationRaise(t) ==
  /\ tasks[t].pc = "op_cache"
  /\ tasks' = [Settled EXCEPT ![t] =
       [@ EXCEPT !.pc = "returned", !.raised = TRUE,
                 !.cache_failure = IF redis_client = None
                                   THEN tasks[t].cache_failure
                                   ELSE "op_cache"]]
  /\ UNCHANGED << redis_client, cache, database, made, added, observed >>
  /\ StoreOnly

OperationsNext ==
  \/ \E c \in ConversationIds : CallAddMessage(c)
  \/ \E c \in ConversationIds, l \in Limits : CallGetHistory(c, l)
  \/ \E op \in CacheOperations, c \in ConversationIds :
       CallCacheOperation(op, c)
  \/ Step("a")
  \/ OperationConnect("a")
  \/ OperationCache("a")
  \/ OperationRaise("a")
  \/ \E c \in ConversationIds : Expire(c)

OperationsSpec == ManagerInit /\ [][OperationsNext]_vars

\* Two add_message calls gathered on the event loop, coroutine "b" starting
\* while "a" is at one of its awaits, and, once both have returned, one
\* get_history.  No session key expires in the meantime.
GatherAddMessage(t, c) ==
  /\ ~InProgress(tasks[t])
  /\ made.calls = made.adds
  /\ IF t = "a" THEN made.adds = 0
     ELSE made.adds = 1 /\ InProgress(tasks["a"])
  /\ EnterAddMessage(t, c)

ReadBack(c, l) ==
  /\ \A t \in TaskIds : ~InProgress(tasks[t])
  /\ made.adds = Cardinality(TaskIds)
  /\ made.calls = made.adds
  /\ EnterGetHistory("a", c, l)

GatherNext ==
  \/ \E t \in TaskIds, c \in ConversationIds : GatherAddMessage(t, c)
  \/ \E c \in ConversationIds, l \in Limits : ReadBack(c, l)
  \/ \E t \in TaskIds : Connect(t)
  \/ \E t \in TaskIds : ConnectRaise(t)
  \/ \E t \in TaskIds : AddCacheGet(t)
  \/ \E t \in TaskIds : AddCacheSetex(t)
  \/ \E t \in TaskIds : AddCacheRaise(t)
  \/ \E t \in TaskIds : UpdateMetadata(t)
  \/ \E t \in TaskIds : UpdateMetadataRaise(t)
  \/ \E t \in TaskIds : SaveToDatabase(t)
  \/ \E t \in TaskIds : SaveToDatabaseRaise(t)
  \/ \E t \in TaskIds : GetCacheGet(t)
  \/ \E t \in TaskIds : LoadOnMiss(t)
  \/ \E t \in TaskIds : Repopulate(t)
  \/ \E t \in TaskIds : GetCacheRaise(t)
  \/ \E t \in TaskIds : LoadFallback(t)

GatherSpec == ManagerInit /\ [][GatherNext]_vars

(***************************************************************************)
(* chat_basic: load the history, answer (streaming or not), save the turn  *)
(* and generate the title.  Requests run concurrently on the event loop.   *)
(***************************************************************************)
ChatOnly == UNCHANGED << sessionVars, helper, storeVars >>

\* The parameters get_history and add_message declare, and the arguments
\* _load_history and _save_history pass.  A keyword argument the method
\* does not declare makes the call raise TypeError before its body runs.
GetHistoryParameters == { "conversation_id", "limit" }
AddMessageParameters ==
  { "conversation_id", "question", "answer", "sources", "context",
    "metadata" }
LoadHistoryArguments == { "conversation_id", "user_id" }
SaveHistoryArguments ==
  { "conversation_id", "question", "answer", "sources", "context",
    "metadata", "user_id" }
Binds(parameters, arguments) == arguments \subseteq parameters

ChatInit ==
  /\ SessionIdle
  /\ helper = NoHelper
  /\ StoreIdle
  /\ ChatIdle

SetRequest(r, request) == requests' = [requests EXCEPT ![r] = request]

\* A request arrives.
ChatBasic(r, c, incognito, stream) ==
  /\ requests[r].pc = "idle"
  /\ SetRequest(r, [IdleRequest EXCEPT !.pc = "load", !.conversation_id = c,
                                       !.is_incognito = incognito,
                                       !.stream = stream])
  /\ UNCHANGED titles
  /\ ChatOnly

\* _load_history and lines 98-103.  Without a conversation id, or incognito,
\* there is no history and the manager is not asked.  Otherwise
\* get_history(conversation_id, user_id=user_id) is called: the call does
\* not bind, the TypeError is caught and reported as no history.
\* is_first_message is `not raw_history`; the cap leaves None alone.
LoadHistory(r) ==
  LET q == requests[r]
      asked == q.conversation_id # None /\ ~q.is_incognito
      raw_history == None
      is_first_message == raw_history = None
  IN  /\ q.pc = "load"
      /\ asked => ~Binds(GetHistoryParameters, LoadHistoryArguments)
      /\ SetRequest(r, [q EXCEPT
           !.pc = IF q.stream THEN "stream" ELSE "chat",
           !.raw_history = raw_history,
           !.is_first_message = is_first_message,
           !.title_generator =
              q.stream /\ is_first_message /\ ~q.is_incognito,
           !.manager_calls = IF asked THEN @ + 1 ELSE @])
      /\ UNCHANGED titles
      /\ ChatOnly

\* rag_service.chat raises, or the session ends in its error event before
\* it reaches on_complete: nothing is saved, no title is generated.
AnswerFails(r) ==
  /\ requests[r].pc \in { "stream", "chat" }
  /\ SetRequest(r, [requests[r] EXCEPT !.pc = "failed"])
  /\ UNCHANGED titles
  /\ ChatOnly

\* The answer is there.  The streaming session goes on to on_complete; the
\* other path schedules its background tasks when there is a conversation.
Answered(r) ==
  LET q == requests[r]
  IN  /\ q.pc \in { "stream", "chat" }
      /\ SetRequest(r, [q EXCEPT
           !.pc = IF q.stream \/ q.conversation_id # None THEN "save"
                  ELSE "done"])
      /\ UNCHANGED titles
      /\ ChatOnly

\* Whether the title follows the save: the session was given a title
\* generator, or the background task was scheduled.
TitleFollows(q) ==
  IF q.stream THEN q.title_generator
  ELSE q.conversation_id # None /\ q.is_first_message /\ ~q.is_incognito

\* _save_history without its incognito check.
SaveHistoryAlways(r) ==
  LET q == requests[r]
      asked == q.conversation_id # None
  IN  /\ q.pc = "save"
      /\ asked => ~Binds(AddMessageParameters, SaveHistoryArguments)
      /\ SetRequest(r, [q EXCEPT
           !.pc = IF TitleFollows(q) THEN "title" ELSE "done",
           !.manager_calls = IF asked THEN @ + 1 ELSE @])
      /\ UNCHANGED titles
      /\ ChatOnly

\* _on_complete or the background task: _save_history, which returns at
\* once for an incognito request and otherwise calls add_message with a
\* user_id keyword; the TypeError is caught and logged.
SaveHistory(r) ==
  LET q == requests[r]
      asked == q.conversation_id # None /\ ~q.is_incognito
  IN  /\ q.pc = "save"
      /\ asked => ~Binds(AddMessageParameters, SaveHistoryArguments)
      /\ SetRequest(r, [q EXCEPT
           !.pc = IF TitleFollows(q) THEN "title" ELSE "done",
           !.manager_calls = IF asked THEN @ + 1 ELSE @])
      /\ UNCHANGED titles
      /\ ChatOnly

\* _title_generator or _generate_and_save_title_bg: generate_title, then
\* _save_title when there is a conversation to save it to.
GenerateTitle(r) ==
  LET q == requests[r]
  IN  /\ q.pc = "title"
      /\ titles' = [titles EXCEPT ![q.conversation_id] = @ + 1]
      /\ SetRequest(r, [q EXCEPT
           !.pc = "done",
           !.title_saved = q.conversation_id # None /\ ~q.is_incognito])
      /\ ChatOnly

ChatNext ==
  \/ \E r \in RequestIds, c \in RequestConversationIds,
        incognito \in BOOLEAN, stream \in BOOLEAN :
       ChatBasic(r, c, incognito, stream)
  \/ \E r \in RequestIds : LoadHistory(r)
  \/ \E r \in RequestIds : AnswerFails(r)
  \/ \E r \in RequestIds : Answered(r)
  \/ \E r \in RequestIds : SaveHistory(r)
  \/ \E r \in RequestIds : GenerateTitle(r)

ChatSpec == ChatInit /\ [][ChatNext]_vars

(***************************************************************************)
(* Properties of the event stream.                                         *)
(***************************************************************************)
Positions(t) == { i \in 1..Len(events) : events[i].type = t }
Count(t) == Len(SelectSeq(events, LAMBDA e : e.type = t))
DoneEmitted == Count("[DONE]") > 0
Terminated ==
  /\ pc = "closed"
  /\ Len(events) > 0
  /\ events[Len(events)] = DONE

\* C1: every run emits the [DONE] sentinel exactly once, as its last item:
\* the terminator never occurs twice, nothing follows it, and the generator
\* has finished exactly when the terminator is the last item emitted.
C1_DoneExactlyOnceAndLast ==
  /\ Count("[DONE]") <= 1
  /\ \A i \in Positions("[DONE]") : i = Len(events)
  /\ (pc = "closed") <=> (Len(events) > 0 /\ events[Len(events)] = DONE)

\* A finished research run without error.
C1_Witness ==
  /\ pc = "closed"
  /\ is_research
  /\ exc = None
  /\ Count("done") = 1
  /\ Count("[DONE]") = 1

\* The phases an exception can escape from.
EscapingPhases ==
  { "intent_classifier", "query_generator", "planner", "retriever",
    "query_reformulator", "thinker", "answer" }

\* C2: an exception that escapes a phase yields exactly one error event, which
\* carries the failure message and is immediately followed by [DONE]; no
\* stream holds two error events, and a stream without an escaping exception
\* holds none.
C2_SingleErrorThenDone ==
  /\ Count("error") <= 1
  /\ \A i \in Positions("error") :
       /\ i = Len(events) - 1
       /\ events[i + 1] = DONE
       /\ exc \in EscapingPhases
       /\ events[i].content = exc
  /\ (pc = "closed" /\ exc # None) => Count("error") = 1
  /\ exc = None => Count("error") = 0

\* A run whose step thinking raised after the step's search had succeeded.
C2_Witness ==
  /\ pc = "closed"
  /\ exc = "thinker"
  /\ Count("step_action_result") >= 1
  /\ Count("error") = 1

\* C3: from every state of a session the stream eventually terminates with
\* [DONE] as its last item, given that every collaborator call returns or
\* raises.
C3_EventuallyTerminated == (pc # "closed") ~> Terminated

\* A run closed after the retriever failed.
C3_Witness ==
  /\ Terminated
  /\ exc = "retriever"

\* C4 as claimed: a failed intent classification is not the session's
\* failure, the session goes on as a research session.
C4_FailOpenToResearch ==
  (intent_task.status = "failed" /\ pc \notin { "start", "await_intent" })
    => (exc = None /\ is_research /\ pc \notin { "except" })

\* C4, amended: a failed intent classification escapes to the outer handler:
\* the session ends with the error event and [DONE] and emits no plan, step
\* or answer event; the research default is what a session without an intent
\* classifier runs on.
C4_ClassificationFailureEndsSession ==
  /\ (intent_task.status = "failed" /\ pc \notin { "start", "await_intent" })
       => /\ exc = "intent_classifier"
          /\ pc \in { "except", "closed" }
          /\ Count("plan") = 0
          /\ Count("step_start") = 0
          /\ Count("answer_start") = 0
          /\ calls.retriever = 0
  /\ (intent_task.status = "failed" /\ pc = "closed")
       => /\ events[Len(events) - 1] = MsgEv("error", "intent_classifier")
          /\ events[Len(events)] = DONE
  /\ (~cfg.intent_classifier /\ pc # "start")
       => (is_research /\ intent_task.status = None)

\* The session closed after the classifier raised.
C4_Witness ==
  /\ pc = "closed"
  /\ intent_task.status = "failed"
  /\ Count("error") = 1


\* The steps the generator takes by itself, as opposed to the completion of
\* a worker thread or of a callback it is waiting for.
GeneratorStep ==
  \/ Begin \/ AwaitIntent \/ EmitClassified \/ Acknowledge \/ GeneralStart
  \/ GeneralToken \/ GeneralStreamRaise \/ GeneralPrediction \/ CollectQuery
  \/ MakePlan \/ StepStart \/ SearchStep \/ ThinkStep \/ AnswerStart
  \/ AnswerToken \/ AnswerStreamRaise \/ AnswerPrediction \/ CitationAudit
  \/ DetectGap \/ RefineRetrieve \/ RefineToken \/ RefineStreamRaise
  \/ RefinePrediction \/ CallTitle \/ Finish \/ HandleException

\* C5 as claimed: persistence and title generation are detached, so while
\* either is still in flight the generator can go on towards [DONE].
C5_CallbacksDetached ==
  (persisted.status = "pending" \/ title_call = "pending")
    => ENABLED GeneratorStep

\* C5, amended: on_complete and generate_title are awaited inline.  While
\* on_complete is in flight `done` stays the last item of the stream, while
\* generate_title is in flight nothing is emitted either, so [DONE] comes only
\* after both have returned (or the title call has raised); a failed save or a
\* failed title call puts no error event on the stream, a failed title call
\* only leaves the title event out.
C5_DoneAfterCallbacksReturn ==
  /\ persisted.status = "pending" => events[Len(events)].type = "done"
  /\ title_call = "pending" => (pc = "await_title" /\ ~DoneEmitted)
  /\ DoneEmitted => (persisted.status # "pending" /\ title_call # "pending")
  /\ (persisted.status = "save_failed" /\ exc = None) => Count("error") = 0
  /\ title_call = "raised" => Count("title") = 0
  /\ (title_call = "raised" /\ exc = None) => Count("error") = 0
  /\ title_call = "returned" => Count("title") = 1

\* A stream closed after the save failed and the title call raised.
C5_Witness ==
  /\ Terminated
  /\ persisted.status = "save_failed"
  /\ title_call = "raised"
  /\ Count("citation_audit") = 1

\* Position of an event type in the order of the research path; 0 for the
\* types the order does not speak of (status, acknowledgment, metadata).
Rank(t) ==
  CASE t = "plan" -> 1
    [] t \in { "step_start", "step_action", "step_action_result",
               "step_thinking", "step_done" } -> 2
    [] t = "answer_start" -> 3
    [] t = "token" -> 4
    [] t = "done" -> 5
    [] t = "citation_audit" -> 6
    [] t \in { "refinement_start", "refinement_search", "refinement_token",
               "refinement_done" } -> 7
    [] t = "title" -> 8
    [] t = "[DONE]" -> 9
    [] OTHER -> 0

\* The events the order speaks of, in stream order.
Ranked(es) == SelectSeq(es, LAMBDA e : Rank(e.type) > 0)

OnceTypes == { "plan", "answer_start", "done", "citation_audit", "[DONE]" }

\* C6: on a research-path run without error the events come in the order
\* plan, step_*, answer_start, token*, done, citation_audit, refinement_*,
\* title, [DONE]; plan, answer_start, done, citation_audit and [DONE] occur
\* at most once at any time and exactly once in the finished run, title at
\* most once.
C6_ResearchEventOrder ==
  (is_research /\ exc = None) =>
    /\ LET r == Ranked(events)
       IN  \A i \in 1..(Len(r) - 1) : Rank(r[i].type) <= Rank(r[i + 1].type)
    /\ \A t \in OnceTypes \cup { "title" } : Count(t) <= 1
    /\ pc = "closed" => \A t \in OnceTypes : Count(t) = 1

\* A finished research run with steps, tokens, a refinement round and a title.
C6_Witness ==
  /\ pc = "closed"
  /\ is_research
  /\ exc = None
  /\ Count("step_done") >= 2
  /\ Count("refinement_done") = 1
  /\ Count("title") = 1

\* C7: steps run in plan order without overlap.  The step_start and
\* step_done events of the stream are, at any time, a prefix of
\*   step_start(s1), step_done(s1), step_start(s2), step_done(s2), ...
\* over the steps s1, s2, ... of the plan, whose ids are pairwise different;
\* once the loop is over (answer_start is out) they are that whole list, so
\* every step has exactly one step_start and one step_done.
StepMarks(es) ==
  SelectSeq(es, LAMBDA e : e.type \in { "step_start", "step_done" })
InPlanOrder ==
  [i \in 1..(2 * Len(steps)) |->
     StepEv(IF i % 2 = 1 THEN "step_start" ELSE "step_done",
            steps[(i + 1) \div 2].id)]
C7_StepsInPlanOrder ==
  LET marks == StepMarks(events) IN
  /\ \A k, l \in 1..Len(steps) : k # l => steps[k].id # steps[l].id
  /\ Len(marks) <= 2 * Len(steps)
  /\ marks = SubSeq(InPlanOrder, 1, Len(marks))
  /\ Count("answer_start") > 0 => marks = InPlanOrder

\* The loop is over for a plan of at least three steps.
C7_Witness ==
  /\ Count("answer_start") = 1
  /\ Len(steps) >= 3
  /\ Count("step_done") = Len(steps)


\* The general branch has been entered.
GeneralBranchTaken == ~is_research /\ Count("answer_start") > 0

\* C8: the two speculative tasks exist as soon as the generator has started,
\* before the first await; once the general branch is taken the query task is
\* no longer running (cancelled, or finished before the cancel), and whenever
\* its thread ends, its result is neither used for a retrieval nor handed to
\* on_complete as search_query.
C8_SpeculativeQueryDiscarded ==
  /\ pc # "start" =>
       /\ (intent_task.status # None) <=> cfg.intent_classifier
       /\ (query_task.status # None) <=> cfg.query_generator
  /\ pc = "await_intent" => (cfg.query_generator => query_task.status # None)
  /\ GeneralBranchTaken =>
       /\ query_task.status # "running"
       /\ pre_generated_query = None
       /\ calls.retriever = 0
       /\ persisted.search_query = None

\* The general turn was saved and the cancelled query thread ended late.
C8_Witness ==
  /\ GeneralBranchTaken
  /\ query_task.status = "cancelled"
  /\ query_task.thread_done
  /\ persisted.status = "saved"

PlanAndStepTypes ==
  { "plan", "step_start", "step_action", "step_action_result",
    "step_thinking", "step_done" }

\* C9: on the general path the stream holds no plan or step event, and the
\* retriever, the planner and the step thinker are never called.
C9_GeneralPathSkipsPlanning ==
  ~is_research =>
    /\ \A t \in PlanAndStepTypes : Count(t) = 0
    /\ calls.retriever = 0
    /\ calls.planner = 0
    /\ calls.thinker = 0
    /\ steps = << >>

\* A finished general run.
C9_Witness ==
  /\ Terminated
  /\ ~is_research
  /\ exc = None
  /\ Count("done") = 1

\* C10: every plan the orchestrator executes has between 1 and 4 steps.
C10_PlanLengthWithinBounds ==
  Count("plan") > 0 => (1 <= Len(steps) /\ Len(steps) <= DocumentedMaxSteps)

(***************************************************************************)
(* Properties of the planner, the heuristic and the citation helpers.      *)
(***************************************************************************)
Returned(fn) == helper.fn = fn /\ helper.returned

\* C11: in every plan create_plan or default_plan returns, the step at
\* position i (counted from 0) has id i, whatever ids the planner model
\* produced.
C11_PlanIdsZeroBased ==
  (Returned("create_plan") \/ Returned("default_plan")) =>
    \A i \in 1..Len(helper.result) : helper.result[i].id = i - 1

\* create_plan has returned a plan whose steps the model had numbered from 1.
C11_Witness ==
  /\ Returned("create_plan")
  /\ Len(helper.args.raw) >= 1
  /\ helper.args.raw[1].id = 1
  /\ helper.result[1].id = 0

\* Punctuation marks a word may carry: those strip("?,.:") names, and
\* the exclamation mark.
Punctuation == { "?", ",", ".", ":", "!" }
WithoutPunctuation(w) == SelectSeq(w, LAMBDA c : c \notin Punctuation)

\* C12, as stated: the heuristic returns true exactly when the question has
\* fewer than 20 words and no word, lower-cased and with its punctuation
\* stripped, is a keyword.
C12_AnyPunctuationStripped ==
  Returned("_should_use_default_plan") =>
    LET q == helper.args.question IN
    helper.result =
      (/\ Len(q) < 20
       /\ \A i \in 1..Len(q) :
            WithoutPunctuation(Lower(q[i])) \notin complex_keywords)

\* A word that is a keyword in any capitalisation, with nothing before and
\* after it but characters among ? , . :
IsKeywordWord(w) ==
  \E k \in complex_keywords : \E a \in 0..Len(w) :
    /\ a + Len(k) <= Len(w)
    /\ SubSeq(Lower(w), a + 1, a + Len(k)) = k
    /\ \A j \in (1..a) \cup ((a + Len(k) + 1)..Len(w)) :
         w[j] \in { "?", ",", ".", ":" }

\* C12, amended: the heuristic returns true exactly when the question has
\* fewer than 20 words and no word is a keyword (in any capitalisation)
\* surrounded only by leading and trailing characters among ? , . : ; a
\* keyword next to any other punctuation mark does not count, and any
\* question of 20 or more words returns false.
C12_SkipPlannerHeuristic ==
  Returned("_should_use_default_plan") =>
    LET q == helper.args.question IN
    helper.result =
      (/\ Len(q) < 20
       /\ \A i \in 1..Len(q) : ~IsKeywordWord(q[i]))

\* The heuristic has returned true for a short question holding "Vs!".
C12_Witness ==
  /\ Returned("_should_use_default_plan")
  /\ Len(helper.args.question) < 20
  /\ \E i \in 1..Len(helper.args.question) :
       helper.args.question[i] = << "V","s","!" >>
  /\ helper.result = TRUE

\* C13: when the heuristic returns true the planner call is never made and
\* the plan is the fallback: one step without search for a non-research
\* question, a search step followed by a synthesis step without search for a
\* research question.
C13_DefaultPlanWithoutPlanner ==
  /\ ShouldUseDefaultPlan(question) =>
       /\ calls.planner = 0
       /\ Count("plan") = 1 =>
            /\ steps = DefaultPlan(is_research)
            /\ is_research
            /\ Len(steps) = 2
            /\ steps[1].needs_search /\ ~steps[2].needs_search
  /\ Len(DefaultPlan(FALSE)) = 1 /\ ~DefaultPlan(FALSE)[1].needs_search

\* A session with a planner whose question the heuristic calls simple has
\* emitted its plan.
C13_Witness ==
  /\ cfg.planner
  /\ ShouldUseDefaultPlan(question)
  /\ Count("plan") = 1
  /\ Len(steps) = 2

CitedAlone(answer, n) ==
  \E i \in 1..Len(answer), j \in 1..Len(answer) :
    /\ i + 1 < j
    /\ answer[i] = "[" /\ answer[j] = "]"
    /\ \A k \in (i + 1)..(j - 1) : IsDigit(answer[k])
    /\ IntOf(SubSeq(answer, i + 1, j - 1)) = n

BracketedIntegers(answer) ==
  LET n == Len(answer)
      markers == { m \in (1..n) \X (1..n) :
                     /\ m[1] < m[2]
                     /\ answer[m[1]] = "["
                     /\ answer[m[2]] = "]"
                     /\ IsDigit(answer[m[1] + 1])
                     /\ IsDigit(answer[m[2] - 1])
                     /\ \A k \in (m[1] + 1)..(m[2] - 1) :
                          \/ IsDigit(answer[k])
                          \/ answer[k] = "," /\ IsDigit(answer[k + 1]) }
      runs(m) == { r \in (1..n) \X (1..n) :
                     /\ m[1] < r[1] /\ r[1] <= r[2] /\ r[2] < m[2]
                     /\ \A k \in r[1]..r[2] : IsDigit(answer[k])
                     /\ ~IsDigit(answer[r[1] - 1])
                     /\ ~IsDigit(answer[r[2] + 1]) }
  IN  { IntOf(SubSeq(answer, r[1], r[2])) :
          r \in UNION { runs(m) : m \in markers } }

\* C15, as stated: every integer inside square brackets is extracted, so a
\* number of a marker such as [1,2] that belongs to no cited paper is
\* reported.
C15_MultiNumberMarkersAudited ==
  Returned("_audit_citations") =>
    LET papers == helper.args.cited_papers
        numbers == { papers[k].citation_number : k \in 1..Len(papers) }
        reported == { helper.result.hallucinated_citation_numbers[k] :
                        k \in 1..Len(helper.result.hallucinated_citation_numbers) }
    IN  BracketedIntegers(helper.args.answer) \ numbers \subseteq reported

\* C16, as stated: the k-th CitedPaper of a sources list has
\* citation_number k, whatever duplicates and unknown ids the raw source
\* list holds.
C16_CitationNumbersGapless ==
  Returned("_build_cited_papers") =>
    \A k \in 1..Len(helper.result) : helper.result[k].citation_number = k

\* C16, amended: the citation_number of a CitedPaper is the position
\* (counted from 1) of the first occurrence of its id in the raw source
\* list; the numbers increase along the sources list and are 1..n exactly
\* when no duplicate and no unknown id stands before the last cited id.
C16_CitationNumberIsRawPosition ==
  Returned("_build_cited_papers") =>
    LET src == helper.args.source_ids
        out == helper.result
    IN  /\ \A k \in 1..Len(out) :
             LET n == out[k].citation_number IN
             /\ n \in 1..Len(src)
             /\ src[n] = out[k].id
             /\ \A j \in 1..(n - 1) : src[j] # out[k].id
        /\ \A k \in 1..(Len(out) - 1) :
             out[k].citation_number < out[k + 1].citation_number
        /\ (\A k \in 1..Len(out) : out[k].citation_number = k)
             <=> (\A k \in 1..Len(out) : src[k] = out[k].id)

\* The sources list built from the raw list x, p1 (x the id of no retrieved
\* paper) holds p1 with citation_number 2.
C16_Witness ==
  /\ Returned("_build_cited_papers")
  /\ helper.args.source_ids = << "x", "p1" >>
  /\ helper.result = << CitedPaper("p1", 2) >>

\* C17: a paper id the raw source list names several times yields exactly
\* one CitedPaper, placed where the id occurs first; no id appears twice in
\* a sources list.
C17_DuplicateSourcesCollapse ==
  Returned("_build_cited_papers") =>
    LET src == helper.args.source_ids
        cand == helper.args.retrieved_papers
        out == helper.result
        FirstAt(id) == CHOOSE i \in 1..Len(src) :
                         src[i] = id /\ \A j \in 1..(i - 1) : src[j] # id
    IN  /\ \A k, l \in 1..Len(out) : k # l => out[k].id # out[l].id
        /\ \A k, l \in 1..Len(out) :
             k < l => FirstAt(out[k].id) < FirstAt(out[l].id)
        /\ \A i \in 1..Len(src) :
             (\E c \in 1..Len(cand) : cand[c] = src[i])
               => \E k \in 1..Len(out) : out[k].id = src[i]

\* The sources list built from the raw list p1, p2, p1 holds p1 once, ahead
\* of p2.
C17_Witness ==
  /\ Returned("_build_cited_papers")
  /\ helper.args.source_ids = << "p1", "p2", "p1" >>
  /\ Len(helper.result) = 2
  /\ helper.result[1].id = "p1"
  /\ helper.result[2].id = "p2"

(***************************************************************************)
(* Properties of the refinement round and of the local failures.           *)
(***************************************************************************)
\* C18: a refinement round (one more retrieval, with gap_query, and one more
\* generation of the answer) happens at most once in a session, and only
\* when the gap detector said "partial" with a gap_query that is not blank;
\* the gap detector is asked at most once, so a refinement never leads to
\* another gap check.
C18_RefinementAtMostOnce ==
  /\ \A t \in { "refinement_start", "refinement_search", "refinement_done" } :
       Count(t) <= 1
  /\ calls.gap_detector <= 1
  /\ calls.program <= 2
  /\ calls.program = 2 => Count("refinement_search") = 1
  /\ (Count("refinement_start") = 1) <=> (refinement.phase # None)
  /\ Count("refinement_start") = 1 =>
       /\ calls.gap_detector = 1
       /\ gap_result.verdict = "partial"
       /\ \E i \in 1..Len(gap_result.gap_query) : gap_result.gap_query[i] # " "
       /\ refinement.gap_q # << >>

\* A session is over whose answer was regenerated once, for a gap_query
\* that had a blank to trim.
C18_Witness ==
  /\ pc = "closed"
  /\ refinement.phase = "done"
  /\ gap_result.gap_query = << " ", "g" >>
  /\ refinement.gap_q = << "g" >>
  /\ calls.program = 2

\* C19, as stated: in a finished stream every refinement_start is followed
\* by exactly one refinement_done, and refinement_search and refinement_token
\* only occur between the two.
C19_RefinementStartMatched ==
  pc = "closed" =>
    /\ Count("refinement_done") = Count("refinement_start")
    /\ \A i \in Positions("refinement_search") \cup Positions("refinement_token") :
         /\ \E b \in Positions("refinement_start") : b < i
         /\ \E d \in Positions("refinement_done") : i < d

\* The failures that are caught where they happen: inside the stream, of
\* the history save, of the gap detector, of the refinement retrieval or
\* regeneration and of the title generation; ahead of it, of the history
\* load.
InStreamFailure ==
  \/ persisted.status = "save_failed"
  \/ gap_result.verdict = "raised"
  \/ refinement.phase \in { "retrieval_raised", "stream_raised" }
  \/ title_call = "raised"
LocalFailure == InStreamFailure \/ history = "load_failed"

\* C20: a failure of gap detection, of the refinement retrieval or
\* regeneration, of title generation or of history load or save puts no
\* exception in flight and no error event into the stream, leaves the
\* generator able to go on, and the events that remain (the title when one
\* is asked for and given, the metadata, [DONE]) are still emitted; after a
\* failed history load the session runs as the first message of a
\* conversation.
C20_LocalFailuresDoNotAbort ==
  /\ InStreamFailure => exc = None /\ pc # "except" /\ Count("error") = 0
  /\ history = "load_failed" => cfg = ChatBasicCall
  /\ LocalFailure =>
       /\ pc # "closed" => ENABLED Next
       /\ pc = "closed" =>
            /\ events[Len(events)] = DONE
            /\ exc = None =>
                 /\ Count("done") = 1
                 /\ cfg.generate_title => title_call \in { "returned", "raised" }
                 /\ (title_call = "returned") <=> (Count("title") = 1)
                 /\ (is_research /\ cfg.include_metadata) =>
                      Count("metadata") = 1

\* A session is over in which the history load, the history save, the
\* regeneration of the refinement round and the title generation all failed.
C20_Witness ==
  /\ pc = "closed"
  /\ history = "load_failed"
  /\ persisted.status = "save_failed"
  /\ refinement.phase = "stream_raised"
  /\ title_call = "raised"
  /\ events[Len(events)] = DONE

(***************************************************************************)
(* Claims about the chat_basic requests and the session manager.           *)
(***************************************************************************)
\* The requests on conversation c that have generated a title.
TitledRequests(c) ==
  { r \in RequestIds : /\ requests[r].conversation_id = c
                       /\ requests[r].pc = "done"
                       /\ TitleFollows(requests[r]) }

\* C21: across any sequence or interleaving of requests on one conversation
\* id, a title is generated at most once for that conversation, and only
\* for a non-incognito request; no later turn generates a title again.
C21_TitleAtMostOnce ==
  \A c \in ConversationIds :
    /\ titles[c] <= 1
    /\ \A r \in TitledRequests(c) : ~requests[r].is_incognito

\* C22: an incognito request touches no tier: its history load is absent
\* and its save a no-op, neither of which reaches the session manager, and
\* a conversation that only incognito requests have used has no cache entry,
\* no conversation row and no message.
C22_IncognitoTouchesNoTier ==
  /\ \A r \in RequestIds :
       requests[r].is_incognito =>
         /\ requests[r].manager_calls = 0
         /\ requests[r].raw_history = None
         /\ ~requests[r].title_saved
  /\ \A c \in ConversationIds :
       (\A r \in RequestIds :
          requests[r].conversation_id = c => requests[r].is_incognito) =>
         /\ cache[c] = << >>
         /\ c \notin database.conversations
         /\ database.messages[c] = << >>

\* Two incognito requests on one conversation have both been answered and
\* have passed their save.
C22_Witness ==
  \A r \in RequestIds :
    /\ requests[r].is_incognito
    /\ requests[r].conversation_id = "c1"
    /\ requests[r].pc = "done"

\* The turns a list of messages holds, by number.
Turns(messages) == [i \in 1..Len(messages) |-> messages[i].turn]

\* A get_history call has returned, and neither it nor any add_message call
\* on its conversation met a failing cache or store round trip or ran
\* alongside another call on that conversation.
CalmRead(call) ==
  /\ call.op = "get_history"
  /\ call.pc = "returned"
  /\ Untroubled(call)
  /\ ~call.overlapped
  /\ added[call.cid].plain
  /\ database.configured

\* C23: after add_message has been called N times for a conversation,
\* get_history(limit=L) returns exactly the last min(N, L) turns, oldest
\* first, from whichever tier.  Stated for the calmest case: every call
\* awaited before the next, no round trip failing, a store configured.
C23_HistoryRoundTrip ==
  \A t \in TaskIds :
    (CalmRead(tasks[t]) /\ tasks[t].limit # 0) =>
      Turns(tasks[t].result) =
        LastN(added[tasks[t].cid].turns, tasks[t].limit)

\* C24: clearing the cache entry of a conversation and then calling
\* get_history returns the same turns, in the same order, as get_history
\* returned immediately before the clearing.  Stated for the calmest case:
\* the same limit, no call in between, no round trip failing in either
\* read or in any add_message before them, a store configured.
C24_CacheBypassConsistent ==
  \A c \in ConversationIds :
    (observed[c].state = "compared" /\ added[c].plain
     /\ database.configured) =>
      Turns(observed[c].last) = Turns(observed[c].prev)

\* C25: every add_message call attempts the durable append of its turn,
\* whatever happened on the cache side: by the time it returns it has
\* entered _save_to_database and, with a store configured, has opened the
\* database session that writes the turn.
C25_DurableWriteNeverSkipped ==
  \A t \in TaskIds :
    (tasks[t].op = "add_message" /\ tasks[t].pc = "returned") =>
      /\ tasks[t].save_called
      /\ database.configured => tasks[t].db_attempted

\* An add_message call whose cache write failed has returned, and its turn
\* is in the store.
C25_Witness ==
  \E t \in TaskIds :
    /\ tasks[t].op = "add_message"
    /\ tasks[t].pc = "returned"
    /\ tasks[t].cache_failure = "cache_setex"
    /\ tasks[t].turn \in
         { database.messages[tasks[t].cid][i] :
             i \in 1..Len(database.messages[tasks[t].cid]) }

\* What get_history owes its caller once the cache has failed it: the
\* store's turns, cut to the limit (max_messages without one).
ServedFromStore(call) ==
  (call.op = "get_history" /\ call.pc = "returned" /\ ~call.db_failed
   /\ database.configured) =>
    Turns(call.result) =
      LastN(database.messages[call.cid], EffectiveLimit(call.limit))

\* A call that is past connect() found a handle or tried to get one.
ConnectionTried(call) ==
  call.pc \notin { "idle", "connect" } =>
    call.handle_at_connect # None \/ call.connect_attempted

\* C26 as stated: whenever the cache is unreachable or a cache operation
\* fails, the call does not raise, get_history returns the store's turns
\* bounded by the limit, the manager drops its cache handle, and a call
\* that finds no handle attempts a connection.
C26_AnyCacheFailureDropsHandle ==
  \A t \in TaskIds :
    /\ ConnectionTried(tasks[t])
    /\ tasks[t].cache_failure # None =>
         /\ ~tasks[t].raised
         /\ tasks[t].handle_after_failure = None
         /\ ServedFromStore(tasks[t])

\* C26, amended: the same, for a failure of connect() or of a read or write
\* of the session key; a failure inside the metadata update of add_message
\* is swallowed as well but leaves the handle in place.
C26_SessionKeyFailureDropsHandle ==
  \A t \in TaskIds :
    /\ ConnectionTried(tasks[t])
    /\ tasks[t].cache_failure # None =>
         /\ ~tasks[t].raised
         /\ ServedFromStore(tasks[t])
         /\ IF tasks[t].cache_failure = "update_metadata"
            THEN tasks[t].handle_after_failure # None
            ELSE tasks[t].handle_after_failure = None

\* A get_history call whose read of the session key failed has returned a
\* turn from the store, and the handle is gone.
C26_Witness ==
  \E t \in TaskIds :
    /\ tasks[t].op = "get_history"
    /\ tasks[t].pc = "returned"
    /\ tasks[t].cache_failure = "cache_get"
    /\ tasks[t].result # << >>
    /\ redis_client = None

\* How often a turn occurs among the rows of a conversation.
Occurrences(c, turn) ==
  Cardinality({ i \in 1..Len(database.messages[c]) :
                  database.messages[c][i] = turn })

\* C27: under any interleaving of concurrent add_message calls, on the same
\* or on different conversations, with the store answering, the store holds
\* the turn of every call that has returned, once, under its conversation.
C27_NoTurnLost ==
  \A c \in ConversationIds :
    (database.configured /\ added[c].stored) =>
      \A k \in 1..Len(added[c].turns) :
        Occurrences(c, added[c].turns[k]) = 1

\* Two add_message calls on one conversation ran interleaved, and the store
\* holds both turns, the second call's first.
C27_Witness ==
  /\ added["c1"].turns = << 2, 1 >>
  /\ database.messages["c1"] = << 2, 1 >>

\* C28: the history handed to the answer generator holds at most 5 turns,
\* and they are the most recent turns the session manager returned, oldest
\* first, however many it returned.
C28_HistoryCappedToLastFive ==
  Returned("chat_basic") =>
    LET raw == helper.args.raw_history
        handed == helper.result
        kept == IF Len(raw) < HistoryCap THEN Len(raw) ELSE HistoryCap
    IN  /\ Len(handed) = kept
        /\ \A i \in 1..kept : handed[i].turn = raw[Len(raw) - kept + i].turn

\* The session manager returned more than 5 turns, and 5 were handed on.
C28_Witness ==
  /\ Returned("chat_basic")
  /\ Len(helper.args.raw_history) > HistoryCap
  /\ Len(helper.result) = HistoryCap
\* The positions in a search step's trace at which `callee` was awaited.
AwaitedAt(trace, callee) ==
  { i \in 1..Len(trace) : trace[i].callee = callee }

\* C29: one search step awaits the retriever at most twice and the query
\* reformulator at most once; a second retrieval comes only after a first
\* one that returned zero papers and after the reformulation, and whatever
\* the second retrieval returns, nothing is awaited after it.
C29_OneReformulateAndRetry ==
  (helper.fn = "_execute_search_step" /\ helper.returned) =>
    LET o == helper.result
        retrievals == AwaitedAt(o.trace, "retriever")
        reformulations == AwaitedAt(o.trace, "query_reformulator")
    IN /\ Cardinality(retrievals) <= 2
       /\ Cardinality(reformulations) <= 1
       /\ o.n_retriever = Cardinality(retrievals)
       /\ o.n_reformulator = Cardinality(reformulations)
       /\ \A i \in retrievals, j \in retrievals :
            i < j => /\ o.trace[i].result = "empty"
                     /\ \E k \in reformulations : i < k /\ k < j
                     /\ j = Len(o.trace)

\* A step whose retry came back empty as well, and which then returned.
C29_Witness ==
  /\ helper.fn = "_execute_search_step"
  /\ helper.returned
  /\ helper.result.raised = None
  /\ Cardinality(AwaitedAt(helper.result.trace, "retriever")) = 2
  /\ helper.result.trace[Len(helper.result.trace)].result = "empty"

\* Some search step of the session has come back with its papers.
Searched ==
  \E i \in 1..Len(events) :
    events[i].type = "step_action" /\ events[i].content = "search"
\* The step of the session in which _execute_search_step runs.
SearchStepTaken == pc = "search" /\ pc' # "search"

\* C30 as stated: a later search step has no pre-generated query and calls
\* the query generator once more; the first search step does not call it
\* when a pre-generated query is there; the query is dropped after the step.
C30_LaterStepsCallGenerator ==
  [][SearchStepTaken =>
       /\ Searched => /\ pre_generated_query = None
                      /\ calls'.query_generator = calls.query_generator + 1
       /\ (~Searched /\ pre_generated_query # None) =>
            calls'.query_generator = calls.query_generator
       /\ pc' = "think" => pre_generated_query' = None]_vars

\* C30, amended: a later search step has no pre-generated query and calls
\* the query generator once more if the session was given one (without a
\* generator it searches with the question and calls nothing); the first
\* search step does not call it when a pre-generated query is there; the
\* query is dropped after the step.
C30_LaterStepsGenerateAfresh ==
  [][SearchStepTaken =>
       /\ Searched =>
            /\ pre_generated_query = None
            /\ calls'.query_generator =
                 calls.query_generator + IF cfg.query_generator THEN 1 ELSE 0
       /\ (~Searched /\ pre_generated_query # None) =>
            calls'.query_generator = calls.query_generator
       /\ pc' = "think" => pre_generated_query' = None]_vars

\* Two search steps have come back in a session with a query generator:
\* one call for the pre-generated query, one for the second step.
C30_Witness ==
  /\ cfg.query_generator
  /\ calls.query_generator = 2
  /\ Len(SelectSeq(events, LAMBDA e :
           e.type = "step_action" /\ e.content = "search")) = 2

\* C31: the running list of retrieved papers never holds one id twice, so
\* the summary handed to a step's thinking sub-call (the summary of the
\* list as it is after the last search step) names each paper once.
C31_RunningSetDeduplicated ==
  LET gathered_context == PaperSummary(all_papers) IN
  \A i, j \in 1..Len(gathered_context) :
    i # j => gathered_context[i].paper # gathered_context[j].paper

\* C32: the candidate set of the refined answer begins with the candidates
\* of the first answer, adds only papers that were not among them, and holds
\* no id twice, whatever the gap retrieval returned.
C32_MergeKeepsSetUnique ==
  (helper.fn = "refinement_merge" /\ helper.returned) =>
    LET unique == helper.args.unique_papers
        merged == helper.result
    IN /\ Len(merged) >= Len(unique)
       /\ SubSeq(merged, 1, Len(unique)) = unique
       /\ \A i \in (Len(unique) + 1)..Len(merged) :
            /\ \E k \in 1..Len(helper.args.extra_papers) :
                 helper.args.extra_papers[k] = merged[i]
            /\ \A j \in 1..Len(unique) : unique[j] # merged[i]
       /\ \A i, j \in 1..Len(merged) : i # j => merged[i] # merged[j]

\* C33: a cache entry, whenever present, equals the most recent turns of the
\* durable store up to the retention cap, so that an expiry between two
\* add_message calls hides no turn from a later get_history.  Stated for
\* the calmest case: no call on the conversation in progress, no round trip
\* of an add_message on it failed, a store configured.
C33_CacheMirrorsStore ==
  \A c \in ConversationIds :
    (/\ cache[c] # << >>
     /\ added[c].plain
     /\ database.configured
     /\ \A t \in TaskIds : ~(InProgress(tasks[t]) /\ tasks[t].cid = c)) =>
      Turns(cache[c]) = LastN(database.messages[c], MaxRetention)

\* C34: after two add_message calls on one conversation ran concurrently
\* and both returned, get_history for that conversation returns both turns.
\* Stated for reads that ask for two turns or more, with no round trip
\* failing and a store configured.
C34_ConcurrentAddsBothRead ==
  \A t \in TaskIds :
    (/\ tasks[t].op = "get_history"
     /\ tasks[t].pc = "returned"
     /\ Untroubled(tasks[t])
     /\ added[tasks[t].cid].untroubled
     /\ database.configured
     /\ Len(added[tasks[t].cid].turns) = Cardinality(TaskIds)
     /\ EffectiveLimit(tasks[t].limit) >= Cardinality(TaskIds)) =>
      \A k \in 1..Len(added[tasks[t].cid].turns) :
        \E i \in 1..Len(tasks[t].result) :
          tasks[t].result[i].turn = added[tasks[t].cid].turns[k]

\* C35: in every reachable state the cached turn list of a conversation
\* holds at most max_messages_per_session turns.
C35_CacheWithinRetentionCap ==
  \A c \in ConversationIds : Len(cache[c]) <= MaxRetention

\* C36: on_complete is invoked at most once per session and only after the
\* done event, with the answer that event carries; a session without a done
\* event persists nothing; and nothing that follows (the refinement, the
\* title, an exception) invokes it again or changes what it was given.
C36_PersistedOnceAfterDone ==
  /\ [](persisted.status # None =>
          /\ Count("done") = 1
          /\ \E i \in 1..Len(events) :
               /\ events[i].type = "done"
               /\ events[i].content = persisted.answer)
  /\ [][persisted.status # None =>
          /\ persisted'.answer = persisted.answer
          /\ persisted'.search_query = persisted.search_query
          /\ persisted'.status # None
          /\ persisted'.status = "pending" => persisted.status = "pending"]_vars

\* A session whose answer was saved and then refined: the saved answer is
\* the one of the done event.
C36_Witness ==
  /\ persisted.status = "saved"
  /\ persisted.answer = "answer"
  /\ Count("refinement_done") = 1

\* C37: when at least one search step of a research session has run, the
\* search_query handed to on_complete with the turn is a query (the one the
\* retrieval used), not null; it is null only in a session that made no
\* search.
C37_PersistedQueryIsTheOneSearched ==
  (persisted.status # None /\ is_research /\ Searched) =>
    persisted.search_query # None

\* The speculative query task was never created, or the generator has
\* called cancel() on it (general branch), or has awaited it (the research
\* branch got as far as "planning", or the await re-raised its exception).
QueryTaskJoinedOrCancelled ==
  \/ query_task.status = None
  \/ GeneralBranchTaken
  \/ \E i \in 1..Len(events) :
       events[i].type = "status" /\ events[i].content = "planning"
  \/ exc = "query_generator"

\* C38: on every path on which the stream terminates, the path where intent
\* classification raises included, the speculative query task has been
\* awaited or cancelled by the time [DONE] is out.
C38_NoSpeculativeTaskLeftBehind ==
  Terminated => QueryTaskJoinedOrCancelled

\* C39: add_message tells its caller ok only if the turn was stored in at
\* least one tier: its write of the session key went through, or its
\* database session committed the row.
C39_OkMeansStoredSomewhere ==
  \A t \in TaskIds :
    (tasks[t].op = "add_message" /\ tasks[t].pc = "returned"
     /\ tasks[t].ok) =>
      \/ tasks[t].cache_failure \in { None, "update_metadata" }
      \/ tasks[t].db_attempted /\ ~tasks[t].db_failed

\* C40: a public operation that goes to the cache (get_metadata,
\* delete_session, extend_ttl, prune_history, get_history, add_message)
\* returns without raising when the cache is unreachable, at connect or at
\* its round trip, and no operation removes a turn from the durable store:
\* the rows of a conversation only ever grow at the end.
C40_CacheOperationsDegrade ==
  /\ [](\A t \in TaskIds :
          (tasks[t].pc = "returned" /\ tasks[t].cache_failure # None) =>
            ~tasks[t].raised)
  /\ [][\A c \in ConversationIds :
          /\ Len(database.messages'[c]) >= Len(database.messages[c])
          /\ SubSeq(database.messages'[c], 1, Len(database.messages[c]))
               = database.messages[c]]_vars

====
